---------------------------- MODULE Spec2Model ----------------------------
(***************************************************************************)
(* Signal generation engine of the trading bot: MarketAnalyzer             *)
(* (src/ai/market_analyzer.py), MLPredictor (src/ai/ml_models.py) and      *)
(* SignalGenerator (src/ai/signal_generator.py).                           *)
(*                                                                         *)
(* Numbers are fixed point.  A Python float x is held as the integer       *)
(*   x * 10^4  for prices, volumes and every scalar on the 0..1 scale      *)
(*             (trend_strength, volatility, sentiment, probabilities),     *)
(*   x * 10^2  for percentages (rsi, confidence, call_probability, fear    *)
(*             and greed), so that x / 100 is the same integer on the      *)
(*             10^4 scale,                                                 *)
(*   x * 10^6  for market_score and price_change_24h,                      *)
(*   x * 10^5  for the successive returns inside _volatility_analysis.     *)
(* Time is counted in whole minutes.                                       *)
(*                                                                         *)
(* A Python dict is a function whose DOMAIN is its set of keys; d.get(k,v) *)
(* is Get(d, k, v) and d[k] on a missing key raises KeyError.  A function  *)
(* body that can raise is an operator returning Raised or Return(v); the   *)
(* operator named after the Python function applies its except clause.     *)
(***************************************************************************)
EXTENDS Integers, Sequences, FiniteSets, TLC

VARIABLES
    now,                 \* datetime.now(), in minutes
    analysis_cache,      \* MarketAnalyzer.analysis_cache: pair -> analysis
    last_analysis_time,  \* MarketAnalyzer.last_analysis_time: pair -> time
    accuracy_tracker,    \* MLPredictor.accuracy_tracker: pair -> counters
    signal_count,        \* SignalGenerator.signal_count
    last_signal_time,    \* SignalGenerator.last_signal_time: pair -> time
    call,                \* the call that completed last and what it ran
    ret,                 \* what that call returned to its caller
    threads,             \* callers on their own threads: where each one is
    cycle,               \* generate_automated_signals: the pairs still to visit
                         \* and what the last visit decided
    data_cache,          \* MarketDataProvider.data_cache: pair -> snapshot, by name
    last_update_time,    \* MarketDataProvider.last_update_time: pair -> time
    fetch,               \* how the last get_real_time_data got its answer
    market_sessions,     \* CurrencyPairs.market_sessions: the sessions marked active
    millis,              \* datetime.now(): the milliseconds past the minute
    signals              \* SignalHistory.signals: the records added by this process

vars == <<now, analysis_cache, last_analysis_time, accuracy_tracker,
          signal_count, last_signal_time, call, ret, threads, cycle,
                   data_cache, last_update_time, fetch, market_sessions, millis, signals>>

----------------------------------------------------------------------------
(* Fixed point and Python values                                           *)

One == 10^4
Million == 10^6

\* None held in a numeric field: arithmetic and ordering on it raise TypeError.
NoneValue == 0 - 2^30

IsNum(v) == v # NoneValue

EmptyDict == <<>>

HasKey(d, k) == k \in DOMAIN d

Get(d, k, default) == IF k \in DOMAIN d THEN d[k] ELSE default

\* dict[k] = v
Put(d, k, v) == [q \in DOMAIN d \cup {k} |-> IF q = k THEN v ELSE d[q]]

Raised == [exc |-> TRUE]

Return(v) == [exc |-> FALSE, val |-> v]

\* try: body / except Exception: return default
Try(r, default) == IF r.exc THEN default ELSE r.val

Min(a, b) == IF a < b THEN a ELSE b

Max(a, b) == IF a > b THEN a ELSE b

Abs(a) == IF a < 0 THEN 0 - a ELSE a

RECURSIVE SumSeq(_)
SumSeq(s) == IF s = <<>> THEN 0 ELSE Head(s) + SumSeq(Tail(s))

\* s[-n:]
LastN(s, n) == IF Len(s) <= n THEN s ELSE SubSeq(s, Len(s) - n + 1, Len(s))

AllNum(s) == \A i \in 1..Len(s) : IsNum(s[i])

SeqMax(s) == CHOOSE m \in {s[i] : i \in 1..Len(s)} : \A i \in 1..Len(s) : s[i] <= m

SeqMin(s) == CHOOSE m \in {s[i] : i \in 1..Len(s)} : \A i \in 1..Len(s) : m <= s[i]

RECURSIVE SqrtBetween(_, _, _)
SqrtBetween(n, lo, hi) ==
    IF lo >= hi THEN lo
    ELSE LET mid == (lo + hi + 1) \div 2
         IN IF mid * mid <= n THEN SqrtBetween(n, mid, hi)
            ELSE SqrtBetween(n, lo, mid - 1)

\* floor of the square root
ISqrt(n) == SqrtBetween(n, 0, Min(n, 40000))


\* a * b / c without forming a * b
MulDiv(a, b, c) == (a \div c) * b + ((a % c) * b) \div c

----------------------------------------------------------------------------
(* MarketAnalyzer: the sub-analyses.  d holds the values the calls to      *)
(* random return during one analysis.                                      *)

CacheTTL == 5

\* market_data.get('price_history', [market_data['price']] * n): the default
\* is built before get is called, so a missing price raises KeyError
price_history_or(md, n) == Get(md, "price_history", [i \in 1..n |-> md.price])

Mean(s) == SumSeq(s) \div Len(s)

technical_body(md, d) ==
    IF ~HasKey(md, "price") THEN Raised
    ELSE LET price_data == price_history_or(md, 20)
             current_price == md.price
             n == Len(price_data)
             last20 == LastN(price_data, 20)
             last50 == LastN(price_data, 50)
         IN IF \/ n >= 20 /\ ~AllNum(last20)
               \/ n >= 50 /\ ~AllNum(last50)
               \/ n < 50 /\ ~IsNum(current_price)
            THEN Raised
            ELSE LET ma20 == IF n >= 20 THEN Mean(last20) ELSE current_price
                     ma50 == IF n >= 50 THEN Mean(last50) ELSE current_price
                     \* ma20 > ma50 on the exact means
                     above == IF n >= 50 THEN 5 * SumSeq(last20) > 2 * SumSeq(last50)
                              ELSE IF n >= 20 THEN SumSeq(last20) > 20 * current_price
                              ELSE FALSE
                 IN Return([ma20 |-> ma20,
                            ma50 |-> ma50,
                            ma_signal |-> IF above THEN "bullish" ELSE "bearish",
                            rsi |-> d.rsi,
                            rsi_signal |-> IF d.rsi < 3000 THEN "oversold"
                                           ELSE IF d.rsi > 7000 THEN "overbought"
                                           ELSE "neutral",
                            macd_signal |-> d.macd_signal,
                            bb_position |-> d.bb_position,
                            bb_signal |-> IF d.bb_position < 2000 THEN "oversold"
                                          ELSE IF d.bb_position > 8000 THEN "overbought"
                                          ELSE "neutral"])

_technical_analysis(md, d) == Try(technical_body(md, d), EmptyDict)

\* num / den > k / 1000, for den # 0
RatioAbove(num, den, k) ==
    IF den > 0 THEN num * 1000 > k * den ELSE num * 1000 < k * den

\* num / den < k / 1000, for den # 0
RatioBelow(num, den, k) ==
    IF den > 0 THEN num * 1000 < k * den ELSE num * 1000 > k * den

trend_body(md) ==
    IF ~HasKey(md, "price") THEN Raised
    ELSE LET price_data == price_history_or(md, 10)
             n == Len(price_data)
         IN IF n < 3 THEN Return("sideways")
            ELSE LET last == price_data[n]
                     back == price_data[n - 2]
                 IN IF ~IsNum(last) \/ ~IsNum(back) \/ back = 0 THEN Raised
                    ELSE IF RatioAbove(last - back, back, 1) THEN Return("bullish")
                    ELSE IF RatioBelow(last - back, back, 0 - 1) THEN Return("bearish")
                    ELSE Return("sideways")

\* a trend analysis whose dead-zone leaves out its two ends
_trend_analysis_inclusive(md) ==
    IF trend_body(md).exc \/ Len(price_history_or(md, 10)) < 3 THEN "sideways"
    ELSE LET price_data == price_history_or(md, 10)
             last == price_data[Len(price_data)]
             back == price_data[Len(price_data) - 2]
         IN IF ~RatioBelow(last - back, back, 1) THEN "bullish"
            ELSE IF ~RatioAbove(last - back, back, 0 - 1) THEN "bearish"
            ELSE "sideways"

\* a trend analysis that never sees a trend
_trend_analysis_sideways(md) == "sideways"

_trend_analysis(md) == Try(trend_body(md), "sideways")

\* the trend strength without its clamp
trend_strength_unclamped(md) ==
    LET price_change == Get(md, "price_change_24h", 0)
        volume == Get(md, "volume", One \div 2)
    IN IF ~IsNum(price_change) \/ ~IsNum(volume) THEN Raised
       ELSE Return((Min(Abs(price_change), One) + Min(volume, One)) \div 2)

trend_strength_body(md) ==
    LET price_change == Get(md, "price_change_24h", 0)
        volume == Get(md, "volume", One \div 2)
    IN IF ~IsNum(price_change) \/ ~IsNum(volume) THEN Raised
       ELSE LET momentum_factor == Min(Abs(price_change), One)
                volume_factor == Min(volume, One)
                trend_strength == (momentum_factor + volume_factor) \div 2
            IN Return(Min(Max(trend_strength, One \div 10), One))

_calculate_trend_strength(md) == Try(trend_strength_body(md), One \div 2)

\* the successive returns (p[i] - p[i-1]) / p[i-1], times 10^5
price_changes(price_data) ==
    [i \in 1..(Len(price_data) - 1) |->
        ((price_data[i + 1] - price_data[i]) * 10^5) \div price_data[i]]

\* np.std: the population standard deviation
Std(s) ==
    LET m == Mean(s)
        dev == [i \in 1..Len(s) |-> (s[i] - m) * (s[i] - m)]
    IN ISqrt(SumSeq(dev) \div Len(s))

\* a volatility without its floor
volatility_body_unfloored(md) ==
    IF ~HasKey(md, "price") THEN Raised
    ELSE LET price_data == price_history_or(md, 20)
         IN IF Len(price_data) < 2 THEN Return(One \div 2)
            ELSE IF ~AllNum(price_data) \/ \E i \in 1..(Len(price_data) - 1) : price_data[i] = 0
            THEN Raised
            ELSE Return(Min(Std(price_changes(price_data)) * 5, One))

volatility_body(md) ==
    IF ~HasKey(md, "price") THEN Raised
    ELSE LET price_data == price_history_or(md, 20)
             n == Len(price_data)
         IN IF n < 2 THEN Return(One \div 2)
            ELSE IF ~AllNum(price_data) \/ \E i \in 1..(n - 1) : price_data[i] = 0
            THEN Raised
            ELSE LET volatility == Std(price_changes(price_data))
                     \* std * 100 / 2.0 on the 10^4 scale
                     normalized_volatility == Min(volatility * 5, One)
                 IN Return(Max(normalized_volatility, One \div 10))

_volatility_analysis(md) == Try(volatility_body(md), One \div 2)

support_resistance_body(md, d) ==
    IF ~HasKey(md, "price") THEN Raised
    ELSE LET current_price == md.price
             price_data == Get(md, "price_history", [i \in 1..20 |-> current_price])
             last10 == LastN(price_data, 10)
         IN IF last10 = <<>> \/ ~AllNum(last10) \/ ~IsNum(current_price) \/ current_price = 0
            THEN Raised
            ELSE LET resistance == MulDiv(SeqMax(last10), d.high_factor, One)
                     support == MulDiv(SeqMin(last10), d.low_factor, One)
                     resistance_distance == ((resistance - current_price) * One) \div current_price
                     support_distance == ((current_price - support) * One) \div current_price
                 IN Return([resistance |-> resistance,
                            support |-> support,
                            resistance_distance |-> resistance_distance,
                            support_distance |-> support_distance,
                            near_resistance |-> resistance_distance < 20,
                            near_support |-> support_distance < 20])

_find_support_resistance(md, d) == Try(support_resistance_body(md, d), EmptyDict)

_market_sentiment_analysis(d) ==
    LET sentiment_score == (d.news_sentiment + (d.fear_greed - 5000) * 2) \div 2
    IN [news_sentiment |-> d.news_sentiment,
        fear_greed_index |-> d.fear_greed,
        economic_impact |-> d.economic_impact,
        sentiment_score |-> sentiment_score,
        sentiment_label |-> IF sentiment_score > 2000 THEN "bullish"
                            ELSE IF sentiment_score < 0 - 2000 THEN "bearish"
                            ELSE "neutral"]

volume_body(md) ==
    LET current_volume == Get(md, "volume", One \div 2)
        volume_history == Get(md, "volume_history", [i \in 1..10 |-> current_volume])
    IN IF ~IsNum(current_volume) \/ ~AllNum(volume_history) THEN Raised
       ELSE LET avg_volume == IF volume_history # <<>> THEN Mean(volume_history)
                              ELSE current_volume
            IN Return([current_volume |-> current_volume,
                       average_volume |-> avg_volume,
                       volume_trend |-> IF 10 * current_volume > 12 * avg_volume THEN "increasing"
                                        ELSE IF 10 * current_volume < 8 * avg_volume THEN "decreasing"
                                        ELSE "stable",
                       volume_strength |-> Min((current_volume * One) \div Max(avg_volume, One \div 10),
                                               2 * One),
                       high_volume |-> 2 * current_volume > 3 * avg_volume])

_volume_analysis(md) ==
    Try(volume_body(md), [volume_trend |-> "stable", volume_strength |-> One])

bullish_patterns == {"double_bottom", "triangle", "flag", "pennant"}

bearish_patterns == {"double_top", "head_shoulders", "wedge"}

_pattern_recognition(d) ==
    LET detected_pattern == d.detected_pattern
        pattern_strength == IF detected_pattern # "none" THEN d.pattern_strength ELSE 0
    IN [detected_pattern |-> detected_pattern,
        pattern_strength |-> pattern_strength,
        pattern_signal |-> IF detected_pattern \in bullish_patterns THEN "bullish"
                           ELSE IF detected_pattern \in bearish_patterns THEN "bearish"
                           ELSE "neutral",
        pattern_confidence |-> pattern_strength]

\* a score produced independently of the analysis
_calculate_market_score_baseline(analysis) == Million \div 2

\* market_score, times 10^6
_calculate_market_score(analysis) ==
    LET technical == Get(analysis, "technical", EmptyDict)
        ma_signal == Get(technical, "ma_signal", "absent")
        rsi_signal == Get(technical, "rsi_signal", "absent")
        trend == Get(analysis, "trend", "sideways")
        trend_strength == Get(analysis, "trend_strength", One \div 2)
        sentiment == Get(analysis, "sentiment", EmptyDict)
        sentiment_score == Get(sentiment, "sentiment_score", 0)
        patterns == Get(analysis, "patterns", EmptyDict)
        pattern_signal == Get(patterns, "pattern_signal", "neutral")
        pattern_strength == Get(patterns, "pattern_strength", 0)
        score == Million \div 2
                 + (IF ma_signal = "bullish" THEN Million \div 10
                    ELSE IF ma_signal = "bearish" THEN 0 - Million \div 10 ELSE 0)
                 + (IF rsi_signal = "oversold" THEN Million \div 20
                    ELSE IF rsi_signal = "overbought" THEN 0 - Million \div 20 ELSE 0)
                 + (IF trend = "bullish" THEN 15 * trend_strength
                    ELSE IF trend = "bearish" THEN 0 - 15 * trend_strength ELSE 0)
                 + 10 * sentiment_score
                 + (IF pattern_signal = "bullish" THEN 10 * pattern_strength
                    ELSE IF pattern_signal = "bearish" THEN 0 - 10 * pattern_strength ELSE 0)
    IN Min(Max(score, 0), Million)

\* a cache that is never fresh
_is_analysis_cached_never(pair) == FALSE

\* a cache that is still fresh at 5 minutes
_is_analysis_cached_inclusive(pair) ==
    IF pair \notin DOMAIN analysis_cache \/ pair \notin DOMAIN last_analysis_time THEN FALSE
    ELSE now - last_analysis_time[pair] <= CacheTTL

_is_analysis_cached(pair) ==
    IF pair \notin DOMAIN analysis_cache \/ pair \notin DOMAIN last_analysis_time THEN FALSE
    ELSE now - last_analysis_time[pair] < CacheTTL

_get_default_analysis ==
    [trend |-> "sideways",
     trend_strength |-> One \div 2,
     volatility |-> One \div 2,
     market_score |-> Million \div 2,
     sentiment |-> [sentiment_label |-> "neutral"],
     patterns |-> [pattern_signal |-> "neutral"]]

\* analysis['market_score'] = self._calculate_market_score(analysis)
with_market_score(analysis) ==
    Put(analysis, "market_score", _calculate_market_score(analysis))

\* lines 24-49 of analyze_market: the analysis assembled from the sub-analyses
compute_analysis(md, d) ==
    with_market_score([technical |-> _technical_analysis(md, d),
                       trend |-> _trend_analysis(md),
                       trend_strength |-> _calculate_trend_strength(md),
                       volatility |-> _volatility_analysis(md),
                       support_resistance |-> _find_support_resistance(md, d),
                       sentiment |-> _market_sentiment_analysis(d),
                       volume_analysis |-> _volume_analysis(md),
                       patterns |-> _pattern_recognition(d)])

----------------------------------------------------------------------------
(* MLPredictor                                                             *)

Sign(label) == IF label = "bullish" THEN One ELSE IF label = "bearish" THEN 0 - One ELSE 0

Flag(b) == IF b THEN One ELSE 0

\* the 22 components, in the order of the appends; component k of the model
\* is features[0][k - 1] of the code
_extract_features(md, analysis, d) ==
    LET technical == Get(analysis, "technical", EmptyDict)
        sr == Get(analysis, "support_resistance", EmptyDict)
        sentiment == Get(analysis, "sentiment", EmptyDict)
        volume_analysis == Get(analysis, "volume_analysis", EmptyDict)
        patterns == Get(analysis, "patterns", EmptyDict)
    IN << Get(md, "price", One),
          Get(technical, "rsi", 5000),
          Sign(Get(technical, "ma_signal", "absent")),
          Get(technical, "bb_position", One \div 2),
          Sign(Get(technical, "macd_signal", "absent")),
          Get(analysis, "trend_strength", One \div 2),
          Sign(Get(analysis, "trend", "sideways")),
          Get(analysis, "volatility", One \div 2),
          Get(sr, "resistance_distance", One \div 100),
          Get(sr, "support_distance", One \div 100),
          Flag(Get(sr, "near_resistance", FALSE)),
          Flag(Get(sr, "near_support", FALSE)),
          Get(sentiment, "sentiment_score", 0),
          Get(sentiment, "fear_greed_index", 5000),
          Get(volume_analysis, "volume_strength", One),
          Flag(Get(volume_analysis, "high_volume", FALSE)),
          Sign(Get(patterns, "pattern_signal", "neutral")),
          Get(patterns, "pattern_strength", 0),
          Get(analysis, "market_score", Million \div 2) \div 100,
          (d.hour * One) \div 24,
          (d.weekday * One) \div 6,
          Flag(d.hour >= 8 /\ d.hour <= 16) >>

\* a selection that tests the long-term conditions first
_select_model_type_long_first(analysis) ==
    LET volatility == Get(analysis, "volatility", One \div 2)
        trend_strength == Get(analysis, "trend_strength", One \div 2)
    IN IF volatility < 3000 \/ trend_strength < 3000 THEN "long_term"
       ELSE IF volatility > 7000 \/ trend_strength > 8000 THEN "short_term"
       ELSE "medium_term"

_select_model_type(analysis) ==
    LET volatility == Get(analysis, "volatility", One \div 2)
        trend_strength == Get(analysis, "trend_strength", One \div 2)
    IN IF volatility > 7000 \/ trend_strength > 8000 THEN "short_term"
       ELSE IF volatility < 3000 \/ trend_strength < 3000 THEN "long_term"
       ELSE "medium_term"

\* np.var of the features, times 10^4
Variance(features) ==
    LET m == Mean(features)
        dev == [i \in 1..Len(features) |->
                   ((features[i] - m) \div 100) * ((features[i] - m) \div 100)]
    IN SumSeq(dev) \div Len(features)

_calculate_prediction_strength(features) ==
    LET feature_variance == Variance(features)
        feature_mean == Mean(features)
    IN IF feature_variance < 1000 /\ Abs(feature_mean - 5000) > 2000 THEN "STRONG"
       ELSE IF feature_variance < 2000 /\ Abs(feature_mean - 5000) > 1000 THEN "MODERATE"
       ELSE "WEAK"

\* round(x, 1) of a percentage held times 100: to the nearest 10, ties to even
Round1(x) ==
    LET q == x \div 10
        r == x % 10
    IN IF r < 5 THEN 10 * q
       ELSE IF r > 5 THEN 10 * (q + 1)
       ELSE IF q % 2 = 0 THEN 10 * q ELSE 10 * (q + 1)

_get_default_prediction(d) ==
    [direction |-> d.default_direction,
     confidence |-> d.default_confidence,
     call_probability |-> 5000,
     put_probability |-> 5000,
     model_type |-> "medium_term",
     prediction_strength |-> "MODERATE",
     reasoning |-> <<"Default AI analysis based on current market conditions">>]

\* random.uniform(-0.15, 0.15): a value, or the value of the interval nearest
\* to the one that brings base_probability + noise to a target
noise_of(draw, base_probability) ==
    IF draw.kind = "value" THEN draw.v
    ELSE Max(0 - 1500, Min(1500, draw.v - base_probability))

\* the confidence without its clamp
prediction_confidence_unclamped(model_type, call_probability, d) ==
    LET confidence == Max(call_probability, One - call_probability)
    IN IF model_type = "short_term" THEN (confidence * d.short_multiplier) \div 100
       ELSE IF model_type = "long_term" THEN (confidence * d.long_multiplier) \div 100
       ELSE confidence

prediction_confidence(model_type, call_probability, d) ==
    LET confidence == Max(call_probability, One - call_probability)
        adjusted == IF model_type = "short_term" THEN (confidence * d.short_multiplier) \div 100
                    ELSE IF model_type = "long_term" THEN (confidence * d.long_multiplier) \div 100
                    ELSE confidence
    IN Max(6500, Min(9500, adjusted))

make_prediction_body(model_type, features, d) ==
    IF ~AllNum(features) THEN Raised
    ELSE LET feature_mean == Mean(features)
             base_probability == 5000 + ((feature_mean - 5000) * 3) \div 10
             noise == noise_of(d.noise, base_probability)
             call_probability == Max(1000, Min(9000, base_probability + noise))
             direction == IF call_probability > 5000 THEN "CALL" ELSE "PUT"
             confidence == prediction_confidence(model_type, call_probability, d)
         IN Return([direction |-> direction,
                    confidence |-> Round1(confidence),
                    call_probability |-> Round1(call_probability),
                    put_probability |-> Round1(One - call_probability),
                    model_type |-> model_type,
                    prediction_strength |-> _calculate_prediction_strength(features)])

\* a predictor that reports the opposite direction
_make_prediction_inverted(model_type, features, d) ==
    LET p == Try(make_prediction_body(model_type, features, d), _get_default_prediction(d))
    IN [p EXCEPT !.direction = IF @ = "CALL" THEN "PUT" ELSE "CALL"]

_make_prediction(model_type, features, d) ==
    Try(make_prediction_body(model_type, features, d), _get_default_prediction(d))

\* a reasoning that reads the sign of the trend and the volatility from the
\* components that hold them
_generate_prediction_reasoning_by_name(features, analysis) ==
    LET technical == Get(analysis, "technical", EmptyDict)
        rsi == Get(technical, "rsi", 5000)
        patterns == Get(analysis, "patterns", EmptyDict)
        parts == (IF features[7] > One \div 2 THEN <<"Strong bullish trend detected">>
                  ELSE IF features[7] < 0 - One \div 2
                       THEN <<"Clear bearish momentum identified">>
                  ELSE <<>>)
                 \o (IF features[8] > 7000
                     THEN <<"High volatility supports strong directional move">>
                     ELSE IF features[8] < 3000
                          THEN <<"Low volatility suggests stable price action">>
                     ELSE <<>>)
                 \o (IF rsi < 3000 THEN <<"RSI indicates oversold conditions">>
                     ELSE IF rsi > 7000 THEN <<"RSI shows overbought territory">>
                     ELSE <<>>)
                 \o (IF Get(patterns, "detected_pattern", "none") # "none"
                     THEN <<"Chart pattern identified">>
                     ELSE <<>>)
    IN IF parts = <<>> THEN <<"Multiple technical factors align for this prediction">>
       ELSE SubSeq(parts, 1, Min(3, Len(parts)))

_generate_prediction_reasoning(features, analysis) ==
    LET trend_indicator == features[6]
        volatility == features[7]
        technical == Get(analysis, "technical", EmptyDict)
        rsi == Get(technical, "rsi", 5000)
        patterns == Get(analysis, "patterns", EmptyDict)
        trend_part == IF trend_indicator > One \div 2 THEN <<"Strong bullish trend detected">>
                      ELSE IF trend_indicator < 0 - One \div 2
                           THEN <<"Clear bearish momentum identified">>
                      ELSE <<>>
        volatility_part == IF volatility > 7000
                           THEN <<"High volatility supports strong directional move">>
                           ELSE IF volatility < 3000
                                THEN <<"Low volatility suggests stable price action">>
                           ELSE <<>>
        rsi_part == IF rsi < 3000 THEN <<"RSI indicates oversold conditions">>
                    ELSE IF rsi > 7000 THEN <<"RSI shows overbought territory">>
                    ELSE <<>>
        pattern_part == IF Get(patterns, "detected_pattern", "none") # "none"
                        THEN <<"Chart pattern identified">>
                        ELSE <<>>
        parts == trend_part \o volatility_part \o rsi_part \o pattern_part
        reasoning_parts == IF parts = <<>>
                           THEN <<"Multiple technical factors align for this prediction">>
                           ELSE parts
    IN SubSeq(reasoning_parts, 1, Min(3, Len(reasoning_parts)))

\* a pair a caller passes as a list: it cannot be the key of a dict, and
\* "pair in d" and "d[pair] = v" raise TypeError
UnhashablePair == "['EUR', 'USD']"

Hashable(pair) == pair # UnhashablePair

\* the accuracy_tracker after _track_prediction(pair, ...); the TypeError of
\* an unhashable pair is caught inside (line 291) before anything is written
_track_prediction(tracker, pair, d) ==
    IF ~Hashable(pair) THEN tracker
    ELSE
    LET entry == IF pair \in DOMAIN tracker THEN tracker[pair]
                 ELSE [total_predictions |-> 0,
                       correct_predictions |-> 0,
                       recent_accuracy |-> 8500]
        total == entry.total_predictions + 1
        correct == entry.correct_predictions + (IF d.simulated_correct THEN 1 ELSE 0)
    IN Put(tracker, pair, [total_predictions |-> total,
                           correct_predictions |-> correct,
                           recent_accuracy |-> (correct * One) \div total])

\* a predict_direction that does not count a prediction that fell back to the
\* default result
predict_direction_default_uncounted(pair, md, analysis, d) ==
    LET features == _extract_features(md, analysis, d)
        model_type == _select_model_type(analysis)
        prediction_result == _make_prediction(model_type, features, d)
        reasoning == _generate_prediction_reasoning(features, analysis)
    IN [prediction |-> Put(prediction_result, "reasoning", reasoning),
        tracker |-> IF make_prediction_body(model_type, features, d).exc
                    THEN accuracy_tracker
                    ELSE _track_prediction(accuracy_tracker, pair, d)]

\* predict_direction: the prediction returned and the tracker it leaves
predict_direction(pair, md, analysis, d) ==
    LET features == _extract_features(md, analysis, d)
        model_type == _select_model_type(analysis)
        prediction_result == _make_prediction(model_type, features, d)
        reasoning == _generate_prediction_reasoning(features, analysis)
    IN [prediction |-> Put(prediction_result, "reasoning", reasoning),
        tracker |-> _track_prediction(accuracy_tracker, pair, d)]

----------------------------------------------------------------------------
(* CurrencyPairs                                                           *)

\* the sessions _get_market_sessions marks active at the hour of construction
_get_market_sessions(hour) ==
    {session \in {"asian", "european", "us"} :
        \/ session = "asian" /\ (23 <= hour \/ hour < 8)
        \/ session = "european" /\ (8 <= hour /\ hour < 17)
        \/ session = "us" /\ (13 <= hour /\ hour < 22)}

PairInfo(pair, trading_sessions) == [pair |-> pair, trading_sessions |-> trading_sessions]

major == <<PairInfo("EUR/USD", {"european", "us"}), PairInfo("GBP/USD", {"european", "us"}),
           PairInfo("USD/JPY", {"asian", "us"}), PairInfo("AUD/USD", {"asian", "us"})>>

\* pairs_data.values(), one category after the other: major, cross, exotic
pairs_data ==
    major
    \o <<PairInfo("EUR/CHF", {"european"}), PairInfo("AUD/JPY", {"asian"}),
         PairInfo("GBP/JPY", {"european", "asian"}), PairInfo("EUR/GBP", {"european"})>>
    \o <<PairInfo("NZD/USD", {"asian", "us"}), PairInfo("USD/CHF", {"european", "us"}),
         PairInfo("USD/CAD", {"us"}), PairInfo("EUR/JPY", {"european", "asian"})>>

PairNames(infos) == [i \in 1..Len(infos) |-> infos[i].pair]

InSession(info) == info.trading_sessions \cap market_sessions # {}

get_active_pairs ==
    LET active_pairs == PairNames(SelectSeq(pairs_data, InSession))
    IN IF active_pairs = <<>> THEN PairNames(major) ELSE active_pairs

----------------------------------------------------------------------------
(* SignalGenerator                                                         *)

None == [py_none |-> TRUE]

\* random.randint(a, b), u the position of the draw in a..b, in thousandths
RandInt(a, b, u) == Min(b, a + (u * (b - a + 1)) \div 1000)

\* an expiration that takes no account of the volatility
_calculate_expiration_time_unadjusted(analysis, confidence, d) ==
    LET base_time == IF confidence > 8500 THEN RandInt(5, 10, d.randint)
                     ELSE IF confidence > 7000 THEN RandInt(10, 20, d.randint)
                     ELSE RandInt(15, 30, d.randint)
    IN Min(60, Max(5, base_time))

_calculate_expiration_time(analysis, confidence, d) ==
    LET volatility == Get(analysis, "volatility", One \div 2)
        base_time == IF confidence > 8500 THEN RandInt(5, 10, d.randint)
                     ELSE IF confidence > 7000 THEN RandInt(10, 20, d.randint)
                     ELSE RandInt(15, 30, d.randint)
        adjusted == IF volatility > 7000 THEN Max(5, base_time - 5)
                    ELSE IF volatility < 3000 THEN base_time + 10
                    ELSE base_time
    IN Min(60, Max(5, adjusted))

\* a scoring that calls a risk_score of 2 LOW
_assess_risk_level_lenient(analysis, confidence) ==
    LET volatility == Get(analysis, "volatility", One \div 2)
        trend_strength == Get(analysis, "trend_strength", One \div 2)
        risk_score == (IF confidence < 7000 THEN 2 ELSE IF confidence < 8500 THEN 1 ELSE 0)
                      + (IF volatility > 8000 THEN 2 ELSE IF volatility > 6000 THEN 1 ELSE 0)
                      + (IF trend_strength < 4000 THEN 1 ELSE 0)
    IN IF risk_score <= 2 THEN "LOW"
       ELSE IF risk_score <= 3 THEN "MEDIUM"
       ELSE "HIGH"

_assess_risk_level(analysis, confidence) ==
    LET volatility == Get(analysis, "volatility", One \div 2)
        trend_strength == Get(analysis, "trend_strength", One \div 2)
        risk_score == (IF confidence < 7000 THEN 2 ELSE IF confidence < 8500 THEN 1 ELSE 0)
                      + (IF volatility > 8000 THEN 2 ELSE IF volatility > 6000 THEN 1 ELSE 0)
                      + (IF trend_strength < 4000 THEN 1 ELSE 0)
    IN IF risk_score <= 1 THEN "LOW"
       ELSE IF risk_score <= 3 THEN "MEDIUM"
       ELSE "HIGH"

\* the narrative: its clauses and the confidence it ends with
_generate_analysis_text(analysis, prediction, d) ==
    LET volatility == Get(analysis, "volatility", One \div 2)
        trend == Get(analysis, "trend", "sideways")
    IN [clauses |->
           << IF trend = "bullish" THEN "Strong bullish momentum detected"
              ELSE IF trend = "bearish" THEN "Clear bearish pressure identified"
              ELSE "Market showing consolidation pattern",
              IF volatility > 7000 THEN "High volatility suggests strong price movement"
              ELSE IF volatility < 3000 THEN "Low volatility indicates stable price action"
              ELSE "Moderate volatility with clear directional bias",
              <<prediction.direction, d.template>> >>,
        confidence |-> prediction.confidence]

_generate_analysis_text_with_timeframe(analysis, prediction, expiration_minutes) ==
    LET volatility == Get(analysis, "volatility", One \div 2)
        trend == Get(analysis, "trend", "sideways")
        timeframe_type == IF expiration_minutes <= 5 THEN "short"
                          ELSE IF expiration_minutes <= 30 THEN "medium"
                          ELSE "long"
    IN [clauses |->
           << <<timeframe_type, expiration_minutes>>,
              IF expiration_minutes <= 5
              THEN (IF volatility > 6000 THEN "High volatility perfect for quick trades"
                    ELSE "Stable momentum for precise entry")
              ELSE IF expiration_minutes <= 30
                   THEN "Balanced risk-reward ratio for trend following"
              ELSE "Strong directional bias for extended moves",
              IF trend = "bullish" THEN "Strong bullish momentum detected"
              ELSE IF trend = "bearish" THEN "Clear bearish pressure identified"
              ELSE "Consolidation breakout pattern forming",
              <<prediction.direction, timeframe_type>> >>,
        confidence |-> prediction.confidence]

\* datetime.now() in milliseconds; the epoch is taken at the construction of
\* the engine
current_time == now * 60000 + millis

\* an id on the nearest second instead of the whole second
signal_id_rounded(pair, time) == pair \o "_" \o ToString((time + 500) \div 1000)

\* f"{pair}_{int(current_time.timestamp())}"
signal_id(pair, time) == pair \o "_" \o ToString(time \div 1000)

\* the dict built at the end of _create_signal and _create_signal_with_timeframe
signal_record(pair, md, prediction, d, expiration_minutes, risk_level, analysis_text) ==
    [pair |-> pair,
     direction |-> prediction.direction,
     entry_price |-> md.price + MulDiv(md.price, d.jitter, One),
     current_price |-> md.price,
     expiration_minutes |-> expiration_minutes,
     confidence |-> prediction.confidence,
     risk_level |-> risk_level,
     analysis |-> analysis_text,
     timestamp |-> now,
     signal_id |-> signal_id(pair, current_time)]

create_signal_body(pair, md, analysis, prediction, d) ==
    IF ~HasKey(md, "price") \/ ~IsNum(md.price) THEN Raised
    ELSE Return(signal_record(pair, md, prediction, d,
                              _calculate_expiration_time(analysis, prediction.confidence, d),
                              _assess_risk_level(analysis, prediction.confidence),
                              _generate_analysis_text(analysis, prediction, d)))

_create_signal(pair, md, analysis, prediction, d) ==
    Try(create_signal_body(pair, md, analysis, prediction, d), None)

\* a create step that computes the expiration whatever was supplied
create_signal_with_timeframe_computed(pair, md, analysis, prediction, expiration_minutes, d) ==
    IF ~HasKey(md, "price") \/ ~IsNum(md.price) THEN Raised
    ELSE Return(signal_record(pair, md, prediction, d,
                              _calculate_expiration_time(analysis, prediction.confidence, d),
                              _assess_risk_level(analysis, prediction.confidence),
                              _generate_analysis_text_with_timeframe(analysis, prediction,
                                 _calculate_expiration_time(analysis, prediction.confidence, d))))

\* a create step that brings a supplied expiration into [5, 60]
create_signal_with_timeframe_clamped(pair, md, analysis, prediction, expiration_minutes, d) ==
    IF ~HasKey(md, "price") \/ ~IsNum(md.price) THEN Raised
    ELSE LET minutes == IF expiration_minutes = NoneValue
                        THEN _calculate_expiration_time(analysis, prediction.confidence, d)
                        ELSE Min(60, Max(5, expiration_minutes))
         IN Return(signal_record(pair, md, prediction, d, minutes,
                                 _assess_risk_level(analysis, prediction.confidence),
                                 _generate_analysis_text_with_timeframe(analysis, prediction, minutes)))

create_signal_with_timeframe_body(pair, md, analysis, prediction, expiration_minutes, d) ==
    IF ~HasKey(md, "price") \/ ~IsNum(md.price) THEN Raised
    ELSE LET minutes == IF expiration_minutes = NoneValue
                        THEN _calculate_expiration_time(analysis, prediction.confidence, d)
                        ELSE expiration_minutes
         IN Return(signal_record(pair, md, prediction, d, minutes,
                                 _assess_risk_level(analysis, prediction.confidence),
                                 _generate_analysis_text_with_timeframe(analysis, prediction, minutes)))

_create_signal_with_timeframe(pair, md, analysis, prediction, expiration_minutes, d) ==
    Try(create_signal_with_timeframe_body(pair, md, analysis, prediction, expiration_minutes, d),
        None)

\* a test that lets a signal through when the interval has just elapsed
_should_generate_signal_inclusive(pair, interval) ==
    IF ~HasKey(last_signal_time, pair) THEN TRUE
    ELSE now - last_signal_time[pair] >= interval

\* interval is the value of random.randint(8, 18)
_should_generate_signal(pair, interval) ==
    IF ~HasKey(last_signal_time, pair) THEN TRUE
    ELSE now - last_signal_time[pair] > interval

high_performance_pairs == <<"EUR/CHF", "AUD/JPY", "GBP/USD", "USD/JPY",
                            "EUR/USD", "GBP/JPY", "AUD/USD", "NZD/USD">>

\* random.choices with positive weights and random.choice: any element of the
\* list, picked by the draw u
Choice(list, u) == list[((u - 1) % Len(list)) + 1]

IsActive(pair) == \E i \in 1..Len(get_active_pairs) : get_active_pairs[i] = pair

\* a selection that does not look at the active pairs
_select_optimal_pair_unfiltered(u) == Choice(high_performance_pairs, u)

_select_optimal_pair(u) ==
    LET available_pairs == SelectSeq(high_performance_pairs, IsActive)
    IN IF available_pairs # <<>> THEN Choice(available_pairs, u)
       ELSE IF get_active_pairs # <<>> THEN Choice(get_active_pairs, u)
       ELSE "EUR/USD"

\* what a call did to the engine and what it hands back: exc when it raises
\* to its caller, val the value returned, then the state it leaves
Outcome(exc, val, cache, times, tracker, count, ran, analysis, prediction) ==
    [exc |-> exc, val |-> val, cache |-> cache, times |-> times, tracker |-> tracker,
     count |-> count, ran |-> ran, analysis |-> analysis, prediction |-> prediction]

\* lines 51-55 with a cache that holds the latest analysis only
cache_and_return_latest_only(pair, analysis) ==
    IF ~Hashable(pair)
    THEN Outcome(TRUE, None, analysis_cache, last_analysis_time, accuracy_tracker,
                 signal_count, {"analyze_market", "sub_analyses"}, None, None)
    ELSE Outcome(FALSE, analysis, (pair :> analysis), (pair :> now), accuracy_tracker,
                 signal_count, {"analyze_market", "sub_analyses"}, analysis, None)

\* lines 51-55 with a cache that takes any pair as a key
cache_and_return_any_key(pair, analysis) ==
    Outcome(FALSE, analysis, Put(analysis_cache, pair, analysis),
            Put(last_analysis_time, pair, now), accuracy_tracker, signal_count,
            {"analyze_market", "sub_analyses"}, analysis, None)

\* lines 51-55 of analyze_market: the analysis is cached, stamped and
\* returned; the write of line 52 raises TypeError for an unhashable pair
cache_and_return(pair, analysis) ==
    IF ~Hashable(pair)
    THEN Outcome(TRUE, None, analysis_cache, last_analysis_time, accuracy_tracker,
                 signal_count, {"analyze_market", "sub_analyses"}, None, None)
    ELSE Outcome(FALSE, analysis, Put(analysis_cache, pair, analysis),
                 Put(last_analysis_time, pair, now), accuracy_tracker, signal_count,
                 {"analyze_market", "sub_analyses"}, analysis, None)

\* an analyze_market that gives up when the volatility analysis fails
analyze_market_body_abort(pair, md, d) ==
    IF _is_analysis_cached(pair)
    THEN Outcome(FALSE, analysis_cache[pair], analysis_cache, last_analysis_time,
                 accuracy_tracker, signal_count, {"analyze_market"},
                 analysis_cache[pair], None)
    ELSE IF volatility_body(md).exc
    THEN Outcome(TRUE, None, analysis_cache, last_analysis_time, accuracy_tracker,
                 signal_count, {"analyze_market", "sub_analyses"}, None, None)
    ELSE cache_and_return(pair, compute_analysis(md, d))

analyze_market_body(pair, md, d) ==
    IF _is_analysis_cached(pair)
    THEN Outcome(FALSE, analysis_cache[pair], analysis_cache, last_analysis_time,
                 accuracy_tracker, signal_count, {"analyze_market"},
                 analysis_cache[pair], None)
    ELSE cache_and_return(pair, compute_analysis(md, d))

\* except Exception: return self._get_default_analysis()
or_default_analysis(r) ==
    IF r.exc
    THEN Outcome(FALSE, _get_default_analysis, analysis_cache, last_analysis_time,
                 accuracy_tracker, signal_count, r.ran \cup {"_get_default_analysis"},
                 _get_default_analysis, None)
    ELSE r

analyze_market(pair, md, d) == or_default_analysis(analyze_market_body(pair, md, d))

\* a test that lets the empty record through
Falsy_none_only(md) == md = None

\* "if not market_data"
Falsy(md) == md = None \/ md = EmptyDict

\* lines 39-52 of generate_signal and 71-84 of generate_signal_with_timeframe,
\* with the signal the create step built; logging the signal subscripts it,
\* which raises TypeError on None after signal_count was raised
composed(a, p, signal) ==
    Outcome(signal = None, signal, a.cache, a.times, p.tracker, signal_count + 1,
            a.ran \cup {"predict_direction"}, a.val, p.prediction)

\* the analysis stage's outcome a, and the prediction made from its value
predicted(pair, md, a, d) == [a |-> a, p |-> predict_direction(pair, md, a.val, d.pr)]

\* except Exception: return None
or_none(r) == IF r.exc THEN [r EXCEPT !.exc = FALSE, !.val = None] ELSE r

\* lines 46-52 of generate_signal
create_and_count(pair, md, s, d) ==
    composed(s.a, s.p, _create_signal(pair, md, s.a.val, s.p.prediction, d.sg))

generate_signal_body(pair, md, d) ==
    IF Falsy(md)
    THEN Outcome(FALSE, None, analysis_cache, last_analysis_time, accuracy_tracker,
                 signal_count, {}, None, None)
    ELSE create_and_count(pair, md, predicted(pair, md, analyze_market(pair, md, d.an), d), d)

\* generate_signal without its except clause
generate_signal_unguarded(pair, md, d) == generate_signal_body(pair, md, d)

\* except Exception: return None
generate_signal(pair, md, d) == or_none(generate_signal_body(pair, md, d))

\* lines 78-84 of generate_signal_with_timeframe
create_with_timeframe_and_count(expiration_minutes, pair, md, s, d) ==
    composed(s.a, s.p, _create_signal_with_timeframe(pair, md, s.a.val, s.p.prediction,
                                                     expiration_minutes, d.sg))

generate_signal_with_timeframe_body(expiration_minutes, pair, md, d) ==
    IF Falsy(md)
    THEN Outcome(FALSE, None, analysis_cache, last_analysis_time, accuracy_tracker,
                 signal_count, {}, None, None)
    ELSE create_with_timeframe_and_count(expiration_minutes, pair, md,
            predicted(pair, md, analyze_market(pair, md, d.an), d), d)

generate_signal_with_timeframe(expiration_minutes, pair, md, d) ==
    or_none(generate_signal_with_timeframe_body(expiration_minutes, pair, md, d))

----------------------------------------------------------------------------
(* Inputs: pairs, the snapshots the data source hands over, the draws      *)

Pairs == {"EUR/USD", "GBP/USD"}

\* the last minute of the clock
MaxTime == 5

\* the calls that reach the predictor are counted up to this many
MaxSignals == 2

Threads == {"t1", "t2"}

Ramp(n, first, step) == [i \in 1..n |-> first + (i - 1) * step]

\* market data records by name; "none" and "empty" are the two answers of a
\* source that has nothing
Snapshot(name, pair) ==
    CASE name = "none" -> None
      [] name = "empty" -> EmptyDict
      [] name = "rising" ->
            [pair |-> pair, price |-> 10850, volume |-> One,
             price_history |-> <<10820, 10830, 10835, 10850>>,
             volume_history |-> <<9000, 10000, 11000>>,
             price_change_24h |-> 3000]
      [] name = "rising20" ->
            [pair |-> pair, price |-> 10850, volume |-> One,
             price_history |-> Ramp(18, 10820, 1) \o <<10843, 10850>>]
      [] name = "flat" ->
            [pair |-> pair, price |-> 10000, volume |-> 5000,
             price_history |-> <<10000, 10000, 10000>>]
      [] name = "flat2" ->
            [pair |-> pair, price |-> 10850, volume |-> 5000,
             price_history |-> <<10850, 10850>>]
      [] name = "swinging" ->
            [pair |-> pair, price |-> 9700, volume |-> 18000,
             price_history |-> <<10000, 10500, 9800, 10400, 9700>>,
             volume_history |-> <<5000, 6000, 7000>>,
             price_change_24h |-> 0 - 15000]
      [] name = "choppy" ->
            [pair |-> pair, price |-> 10100, volume |-> 6000,
             price_history |-> <<10000, 10100, 10000, 10100>>,
             price_change_24h |-> 2000]
      [] name = "declining20" ->
            [pair |-> pair, price |-> 10860, volume |-> 7000,
             price_history |-> Ramp(20, 10900, 0 - 2),
             price_change_24h |-> 0 - 5000]
      [] name = "yen" ->
            [pair |-> pair, price |-> 1485000, volume |-> 9000,
             price_history |-> <<1484000, 1485500, 1485000>>,
             price_change_24h |-> 4000]
      [] name = "yen_swinging" ->
            [pair |-> pair, price |-> 1005000, volume |-> 2000,
             price_history |-> <<1000000, 1020000, 1000000, 1020000, 1005000>>]
      [] name = "edge_up" ->
            [pair |-> pair, price |-> 10010, volume |-> 6000,
             price_history |-> <<10000, 10005, 10010>>,
             price_change_24h |-> 10000]
      [] name = "edge_down" ->
            [pair |-> pair, price |-> 9990, volume |-> 6000,
             price_history |-> <<10000, 9995, 9990>>,
             price_change_24h |-> 0 - 10000]
      [] name = "error_fallback" ->
            [pair |-> pair, price |-> 10000, bid |-> 9999, ask |-> 10001]
      [] name = "short_history" ->
            [pair |-> pair, price |-> 10850, volume |-> 4000,
             price_history |-> <<10850>>]
      [] name = "negative_volume" ->
            [pair |-> pair, price |-> 10850, volume |-> 0 - 5000,
             price_history |-> <<10820, 10830, 10850>>]
      [] name = "zero_price" ->
            [pair |-> pair, price |-> 0, volume |-> 5000,
             price_history |-> <<0, 10000, 0>>]
      [] name = "no_price" ->
            [pair |-> pair, volume |-> One,
             price_history |-> <<10820, 10830, 10850>>]
      [] name = "none_price" ->
            [pair |-> pair, price |-> NoneValue, volume |-> One,
             price_history |-> <<10820, 10830, 10850>>]
      [] name = "malformed_history" ->
            [pair |-> pair, price |-> 10850, volume |-> NoneValue,
             price_history |-> <<10820, NoneValue, 10850>>]
      [] name = "exchangerate_api" ->
            [pair |-> pair, price |-> 10850, bid |-> 10848, ask |-> 10852,
             volume |-> 8000, source |-> "exchangerate_api",
             price_history |-> <<10840, 10856, 10850>>,
             volume_history |-> <<9000, 10000, 11000>>,
             price_change_24h |-> 3000]
      [] name = "simulated" ->
            [pair |-> pair, price |-> 10900, bid |-> 10898, ask |-> 10902,
             volume |-> 12000, source |-> "simulated",
             price_history |-> <<10910, 10895, 10900>>,
             volume_history |-> <<9000, 10000, 11000>>,
             price_change_24h |-> 0 - 4000, volatility |-> 150]

WellFormed == {"rising", "rising20", "flat", "swinging", "choppy", "declining20", "yen",
               "yen_swinging", "edge_up", "edge_down", "flat2"}

Degraded == {"error_fallback", "short_history", "negative_volume", "zero_price",
             "no_price", "none_price", "malformed_history"}

Nothing == {"none", "empty"}

PipelineSnapshots == WellFormed \cup Degraded \cup Nothing

SystemSnapshots == {"rising", "no_price"} \cup Nothing

Value(v) == [kind |-> "value", v |-> v]

Target(v) == [kind |-> "target", v |-> v]

\* the draws of one analysis: rsi in [20, 80], bb_position in [0.1, 0.9], the
\* spread factors in [1.001, 1.005] and [0.995, 0.999], news in [-1, 1], fear
\* and greed in [0, 100], pattern_strength in [0.3, 0.9]
AnalysisDraws ==
    { d \in [rsi : {2000, 8000},
             macd_signal : {"bullish", "neutral"},
             bb_position : {5000},
             high_factor : {10030},
             low_factor : {9970},
             news_sentiment : {0 - One, One},
             fear_greed : {0, One},
             economic_impact : {"neutral"},
             detected_pattern : {"none", "double_bottom", "double_top"},
             pattern_strength : {3000, 9000}] :
        /\ d.fear_greed = One <=> d.news_sentiment = One
        /\ d.pattern_strength = 9000 <=> d.macd_signal = "bullish" }

\* the draws of one prediction: noise in [-0.15, 0.15], the multipliers in
\* [0.9, 1.1] and [0.95, 1.05]; the default prediction draws its direction and
\* a confidence in [70, 85] instead
PredictorDraws ==
    { d \in [hour : {10}, weekday : {2},
             noise : {Value(0 - 1500), Value(0), Value(1500), Target(5004), Target(4996)},
             short_multiplier : {90, 110},
             long_multiplier : {95, 105},
             simulated_correct : BOOLEAN,
             default_direction : {"CALL"},
             default_confidence : {7000}] :
        /\ d.short_multiplier = 110 <=> d.long_multiplier = 105
        /\ d.simulated_correct <=> d.short_multiplier = 110 }
    \cup
    [hour : {10}, weekday : {2},
     noise : {Value(0)},
     short_multiplier : {100},
     long_multiplier : {100},
     simulated_correct : {TRUE},
     default_direction : {"CALL", "PUT"},
     default_confidence : {7000, 8500}]

\* the draws of one signal: the position of randint's value, the entry jitter
\* in [-0.0001, 0.0001], the reasoning template
ComposerDraws == [randint : {0, 500, 999}, jitter : {1}, template : {1}]

PipelineDraws == [an : AnalysisDraws, pr : PredictorDraws, sg : ComposerDraws]

SystemAnalysisDraws ==
    { [rsi |-> 2000, macd_signal |-> "bullish", bb_position |-> 5000,
       high_factor |-> 10030, low_factor |-> 9970, news_sentiment |-> One,
       fear_greed |-> One, economic_impact |-> "neutral",
       detected_pattern |-> "double_bottom", pattern_strength |-> 9000],
      [rsi |-> 8000, macd_signal |-> "neutral", bb_position |-> 5000,
       high_factor |-> 10030, low_factor |-> 9970, news_sentiment |-> 0 - One,
       fear_greed |-> 0, economic_impact |-> "neutral",
       detected_pattern |-> "none", pattern_strength |-> 3000] }

SystemPredictorDraws ==
    [hour : {10}, weekday : {2}, noise : {Value(1500)},
     short_multiplier : {110}, long_multiplier : {95},
     simulated_correct : BOOLEAN,
     default_direction : {"CALL"}, default_confidence : {7000}]

SystemDraws ==
    { d \in [an : SystemAnalysisDraws, pr : SystemPredictorDraws,
             sg : [randint : {0}, jitter : {1}, template : {1}]] :
        d.pr.simulated_correct <=> d.an.rsi = 2000 }

\* the values of the bot's timeframe_map: minutes, or None for "auto"
timeframe_map == {1, 5, 15, 30, 60, 240, NoneValue}

----------------------------------------------------------------------------
(* The engine as a state machine                                           *)

Idle == [pc |-> "idle", pair |-> "", snapshot |-> "", analysis |-> None,
         reg |-> 0, prediction |-> None]

Constructed ==
    /\ now = 0
    /\ analysis_cache = EmptyDict
    /\ last_analysis_time = EmptyDict
    /\ accuracy_tracker = EmptyDict
    /\ signal_count = 0
    /\ last_signal_time = EmptyDict
    /\ call = [op |-> "init", pair |-> "", snapshot |-> "", expiration |-> NoneValue,
               ran |-> {}, analysis |-> None, prediction |-> None]
    /\ ret = [exc |-> FALSE, val |-> None]
    /\ threads = [t \in Threads |-> Idle]
    /\ cycle = [rest |-> <<>>, pair |-> "", eligible |-> FALSE, issued |-> FALSE]
    /\ data_cache = EmptyDict
    /\ last_update_time = EmptyDict
    /\ fetch = "none"
    /\ millis = 0
    /\ signals = <<>>

\* the engine constructed at 14 h, in the European and US sessions
Init == Constructed /\ market_sessions = _get_market_sessions(14)

\* the engine constructed at any hour of the day
InitAnyHour == Constructed /\ \E hour \in 0..23 : market_sessions = _get_market_sessions(hour)

\* the state after a call with outcome r, and the record of the call
Complete(op, pair, snapshot, expiration, r) ==
    /\ analysis_cache' = r.cache
    /\ last_analysis_time' = r.times
    /\ accuracy_tracker' = r.tracker
    /\ signal_count' = r.count
    /\ call' = [op |-> op, pair |-> pair, snapshot |-> snapshot, expiration |-> expiration,
                ran |-> r.ran, analysis |-> r.analysis, prediction |-> r.prediction]
    /\ ret' = [exc |-> r.exc, val |-> r.val]

Tick ==
    /\ now < MaxTime
    /\ now' = now + 1
    /\ UNCHANGED <<analysis_cache, last_analysis_time, accuracy_tracker, signal_count,
                   last_signal_time, call, ret, threads, cycle,
                   data_cache, last_update_time, fetch, market_sessions, millis, signals>>

GenerateSignal(pair, snapshot, d) ==
    /\ signal_count < MaxSignals
    /\ Complete("generate_signal", pair, snapshot, NoneValue,
                generate_signal(pair, Snapshot(snapshot, pair), d))
    /\ UNCHANGED <<now, last_signal_time, threads, cycle,
                   data_cache, last_update_time, fetch, market_sessions, millis, signals>>

GenerateSignalWithTimeframe(expiration_minutes, pair, snapshot, d) ==
    /\ signal_count < MaxSignals
    /\ Complete("generate_signal_with_timeframe", pair, snapshot, expiration_minutes,
                generate_signal_with_timeframe(expiration_minutes, pair,
                                               Snapshot(snapshot, pair), d))
    /\ UNCHANGED <<now, last_signal_time, threads, cycle,
                   data_cache, last_update_time, fetch, market_sessions, millis, signals>>

Next ==
    \/ Tick
    \/ \E pair \in Pairs, snapshot \in SystemSnapshots, d \in SystemDraws :
          GenerateSignal(pair, snapshot, d)
    \/ \E e \in {240}, pair \in Pairs,
          snapshot \in SystemSnapshots, d \in SystemDraws :
          GenerateSignalWithTimeframe(e, pair, snapshot, d)

Spec == Init /\ [][Next]_vars

\* one call of the pipeline on a fresh engine, over the wide inputs; a pair
\* given as a list comes with the provider's error_fallback record
FirstCall == call.op = "init"

NextPipeline ==
    \/ /\ FirstCall
       /\ \E pair \in {"EUR/USD", UnhashablePair}, snapshot \in PipelineSnapshots, d \in PipelineDraws :
             /\ Hashable(pair) \/ snapshot = "error_fallback"
             /\ GenerateSignal(pair, snapshot, d)
    \/ /\ FirstCall
       /\ \E e \in timeframe_map, snapshot \in PipelineSnapshots, d \in PipelineDraws :
             GenerateSignalWithTimeframe(e, "EUR/USD", snapshot, d)

SpecPipeline == Init /\ [][NextPipeline]_vars

----------------------------------------------------------------------------
(* Callers on their own threads (a request handler of the dashboard and    *)
(* the automated cycle each call asyncio.run): generate_signal in the      *)
(* steps between which another thread can run                              *)

InFlight(pair) == {t \in Threads : threads[t].pc = "analyze" /\ threads[t].pair = pair}

Busy == {t \in Threads : threads[t].pc # "idle"}

\* lines 34-37 and the cache test of analyze_market (21-22)
ThreadEnter(t, pair, snapshot) ==
    /\ threads[t].pc = "idle"
    /\ signal_count + Cardinality(Busy) < MaxSignals
    /\ ~Falsy(Snapshot(snapshot, pair))
    /\ threads' = [threads EXCEPT ![t] =
          IF _is_analysis_cached(pair)
          THEN [Idle EXCEPT !.pc = "predict", !.pair = pair, !.snapshot = snapshot,
                            !.analysis = analysis_cache[pair]]
          ELSE [Idle EXCEPT !.pc = "analyze", !.pair = pair, !.snapshot = snapshot]]
    /\ UNCHANGED <<now, analysis_cache, last_analysis_time, accuracy_tracker,
                   signal_count, last_signal_time, call, ret, cycle,
                   data_cache, last_update_time, fetch, market_sessions, millis, signals>>

\* lines 24-55 of analyze_market
ThreadAnalyze(t, d) ==
    /\ threads[t].pc = "analyze"
    /\ LET pair == threads[t].pair
           analysis == compute_analysis(Snapshot(threads[t].snapshot, pair), d)
       IN /\ analysis_cache' = Put(analysis_cache, pair, analysis)
          /\ last_analysis_time' = Put(last_analysis_time, pair, now)
          /\ threads' = [threads EXCEPT ![t].pc = "predict", ![t].analysis = analysis]
    /\ UNCHANGED <<now, accuracy_tracker, signal_count, last_signal_time, call, ret, cycle,
                   data_cache, last_update_time, fetch, market_sessions, millis, signals>>

\* lines 43-52 of generate_signal
ThreadFinish(t, d) ==
    /\ threads[t].pc = "predict"
    /\ LET pair == threads[t].pair
           md == Snapshot(threads[t].snapshot, pair)
           a == Outcome(FALSE, threads[t].analysis, analysis_cache, last_analysis_time,
                        accuracy_tracker, signal_count, {"analyze_market"},
                        threads[t].analysis, None)
           p == predict_direction(pair, md, a.val, d.pr)
           r == composed(a, p, _create_signal(pair, md, a.val, p.prediction, d.sg))
       IN Complete("generate_signal", pair, threads[t].snapshot, NoneValue,
                   IF r.exc THEN [r EXCEPT !.exc = FALSE, !.val = None] ELSE r)
    /\ threads' = [threads EXCEPT ![t] = Idle]
    /\ UNCHANGED <<now, last_signal_time, cycle,
                   data_cache, last_update_time, fetch, market_sessions, millis, signals>>

NextThreads ==
    \/ \E t \in Threads, pair \in Pairs, snapshot \in SystemSnapshots : ThreadEnter(t, pair, snapshot)
    \/ \E t \in Threads, d \in SystemAnalysisDraws : ThreadAnalyze(t, d)
    \/ \E t \in Threads, d \in SystemDraws : ThreadFinish(t, d)

SpecThreads == Init /\ [][NextThreads]_vars

----------------------------------------------------------------------------
(* predict_direction on threads.  _track_prediction holds no lock, so the  *)
(* membership test, the creation of the entry and each  += 1  (a load and  *)
(* a store of the counter) are steps between which another thread can run. *)
(* Every thread makes one call.                                            *)

fresh_counters == [total_predictions |-> 0, correct_predictions |-> 0,
                   recent_accuracy |-> 8500]

Returned(pair) == {t \in Threads : threads[t].pc = "returned" /\ threads[t].pair = pair}

Tracked(t, pc, tracker) ==
    /\ accuracy_tracker' = tracker
    /\ threads' = [threads EXCEPT ![t].pc = pc]
    /\ UNCHANGED <<now, analysis_cache, last_analysis_time, signal_count,
                   last_signal_time, call, ret, cycle,
                   data_cache, last_update_time, fetch, market_sessions, millis, signals>>

\* lines 47-56 of predict_direction and the test of line 272
PredictEnter(t, pair, d) ==
    /\ threads[t].pc = "idle"
    /\ LET md == Snapshot("rising", pair)
           analysis == compute_analysis(md, d.an)
       IN threads' = [threads EXCEPT ![t] =
             [Idle EXCEPT !.pc = IF HasKey(accuracy_tracker, pair)
                                 THEN "load_total" ELSE "create",
                          !.pair = pair, !.snapshot = "rising",
                          !.analysis = analysis,
                          !.prediction = predict_direction(pair, md, analysis, d.pr).prediction]]
    /\ UNCHANGED <<now, analysis_cache, last_analysis_time, accuracy_tracker,
                   signal_count, last_signal_time, call, ret, cycle,
                   data_cache, last_update_time, fetch, market_sessions, millis, signals>>

\* lines 273-277
TrackCreate(t) ==
    /\ threads[t].pc = "create"
    /\ Tracked(t, "load_total", Put(accuracy_tracker, threads[t].pair, fresh_counters))

\* line 279, the read of total_predictions
TrackLoadTotal(t) ==
    /\ threads[t].pc = "load_total"
    /\ threads' = [threads EXCEPT ![t].pc = "store_total",
                     ![t].reg = accuracy_tracker[threads[t].pair].total_predictions]
    /\ UNCHANGED <<now, analysis_cache, last_analysis_time, accuracy_tracker,
                   signal_count, last_signal_time, call, ret, cycle,
                   data_cache, last_update_time, fetch, market_sessions, millis, signals>>

\* line 279, the write of total_predictions
TrackStoreTotal(t) ==
    /\ threads[t].pc = "store_total"
    /\ Tracked(t, "simulate",
               [accuracy_tracker EXCEPT ![threads[t].pair].total_predictions = threads[t].reg + 1])

\* lines 282-284, up to the read of correct_predictions
TrackSimulate(t, simulated_correct) ==
    /\ threads[t].pc = "simulate"
    /\ threads' = [threads EXCEPT
                     ![t].pc = IF simulated_correct THEN "store_correct" ELSE "accuracy",
                     ![t].reg = accuracy_tracker[threads[t].pair].correct_predictions]
    /\ UNCHANGED <<now, analysis_cache, last_analysis_time, accuracy_tracker,
                   signal_count, last_signal_time, call, ret, cycle,
                   data_cache, last_update_time, fetch, market_sessions, millis, signals>>

\* line 284, the write of correct_predictions
TrackStoreCorrect(t) ==
    /\ threads[t].pc = "store_correct"
    /\ Tracked(t, "accuracy",
               [accuracy_tracker EXCEPT ![threads[t].pair].correct_predictions = threads[t].reg + 1])

\* lines 287-289 and the return of line 61
TrackAccuracy(t) ==
    /\ threads[t].pc = "accuracy"
    /\ LET entry == accuracy_tracker[threads[t].pair]
           total == entry.total_predictions
           correct == entry.correct_predictions
       IN accuracy_tracker' = [accuracy_tracker EXCEPT ![threads[t].pair].recent_accuracy =
                                  IF total > 0 THEN (correct * One) \div total ELSE 8500]
    /\ threads' = [threads EXCEPT ![t].pc = "returned"]
    /\ ret' = [exc |-> FALSE, val |-> threads[t].prediction]
    /\ UNCHANGED <<now, analysis_cache, last_analysis_time, signal_count,
                   last_signal_time, call, cycle,
                   data_cache, last_update_time, fetch, market_sessions, millis, signals>>

NextTracker ==
    \/ \E t \in Threads, pair \in Pairs, d \in SystemDraws : PredictEnter(t, pair, d)
    \/ \E t \in Threads : TrackCreate(t)
    \/ \E t \in Threads : TrackLoadTotal(t)
    \/ \E t \in Threads : TrackStoreTotal(t)
    \/ \E t \in Threads, simulated_correct \in BOOLEAN : TrackSimulate(t, simulated_correct)
    \/ \E t \in Threads : TrackStoreCorrect(t)
    \/ \E t \in Threads : TrackAccuracy(t)

SpecTracker == Init /\ [][NextTracker]_vars

----------------------------------------------------------------------------
(* The automated cycle: generate_automated_signals visits the first three  *)
(* high-volume pairs in turn; one step is one visit                        *)

\* the last minute of the clock of the automated cycle
MaxCycleTime == 19

\* get_high_volume_pairs()[:3], among the pairs of the model
priority_pairs == <<"EUR/USD", "GBP/USD">>

CycleSnapshots == {"rising", "none"}

\* random.randint(8, 18)
Intervals == {8, 13, 18}

TickCycle ==
    /\ now < MaxCycleTime
    /\ now' = now + 1
    /\ UNCHANGED <<analysis_cache, last_analysis_time, accuracy_tracker, signal_count,
                   last_signal_time, call, ret, threads, cycle,
                   data_cache, last_update_time, fetch, market_sessions, millis, signals>>

\* the pairs the loop has still to visit: a new run of the loop starts when
\* the last one is through
pairs_to_visit == IF cycle.rest = <<>> THEN priority_pairs ELSE cycle.rest

\* a visit that stamps the pair after every attempt, with or without a Signal
VisitPair_stamping(snapshot, d, interval) ==
    /\ signal_count < MaxSignals
    /\ IF _should_generate_signal(Head(pairs_to_visit), interval)
       THEN /\ Complete("generate_signal", Head(pairs_to_visit), snapshot, NoneValue,
                        generate_signal(Head(pairs_to_visit),
                                        Snapshot(snapshot, Head(pairs_to_visit)), d))
            /\ last_signal_time' = Put(last_signal_time, Head(pairs_to_visit), now)
            /\ cycle' = [rest |-> Tail(pairs_to_visit), pair |-> Head(pairs_to_visit),
                         eligible |-> TRUE, issued |-> ret'.val # None]
       ELSE /\ cycle' = [rest |-> Tail(pairs_to_visit), pair |-> Head(pairs_to_visit),
                         eligible |-> FALSE, issued |-> FALSE]
            /\ UNCHANGED <<analysis_cache, last_analysis_time, accuracy_tracker,
                           signal_count, last_signal_time, call, ret>>
    /\ UNCHANGED <<now, threads, data_cache, last_update_time, fetch, market_sessions, millis, signals>>

\* lines 96-102 of generate_automated_signals for one pair
VisitPair(snapshot, d, interval) ==
    /\ signal_count < MaxSignals
    /\ IF _should_generate_signal(Head(pairs_to_visit), interval)
       THEN /\ Complete("generate_signal", Head(pairs_to_visit), snapshot, NoneValue,
                        generate_signal(Head(pairs_to_visit),
                                        Snapshot(snapshot, Head(pairs_to_visit)), d))
            /\ last_signal_time' =
                  IF ret'.val # None
                  THEN Put(last_signal_time, Head(pairs_to_visit), now)
                  ELSE last_signal_time
            /\ cycle' = [rest |-> Tail(pairs_to_visit), pair |-> Head(pairs_to_visit),
                         eligible |-> TRUE, issued |-> ret'.val # None]
       ELSE /\ cycle' = [rest |-> Tail(pairs_to_visit), pair |-> Head(pairs_to_visit),
                         eligible |-> FALSE, issued |-> FALSE]
            /\ UNCHANGED <<analysis_cache, last_analysis_time, accuracy_tracker,
                           signal_count, last_signal_time, call, ret>>
    /\ UNCHANGED <<now, threads, data_cache, last_update_time, fetch, market_sessions, millis, signals>>

NextAutomated ==
    \/ TickCycle
    \/ \E snapshot \in CycleSnapshots, d \in SystemDraws, interval \in Intervals :
          VisitPair(snapshot, d, interval)

SpecAutomated == Init /\ [][NextAutomated]_vars

----------------------------------------------------------------------------
(* MarketDataProvider in front of the engine.  The answer of the exchange  *)
(* rate API is an input: "rate" (a rate for the pair), "no_rate" (an       *)
(* answer without one) or "timeout" (requests.get raises).  A snapshot is  *)
(* held in data_cache by its name.                                         *)

FetchOutcomes == {"rate", "no_rate", "timeout"}

\* data is fresh for 30 seconds: within30 says whether an entry written in
\* the current minute is less than 30 seconds old
_is_data_cached(pair, within30) ==
    IF ~HasKey(data_cache, pair) \/ ~HasKey(last_update_time, pair) THEN FALSE
    ELSE now - last_update_time[pair] = 0 /\ within30

\* the except clause of line 154 answers a timeout with None, and the
\* TypeError of "quote in data['rates']" for a pair given as a list
_fetch_from_exchange_rate_api(pair, outcome) ==
    IF outcome = "rate" /\ Hashable(pair) THEN "exchangerate_api" ELSE "none"

\* the demo key sends every fetch to the exchange rate API
_fetch_from_primary_source(pair, outcome) == _fetch_from_exchange_rate_api(pair, outcome)

_fetch_from_fallback_sources == "none"

\* a generator that has nothing to give
_generate_realistic_data_unavailable(pair) == "none"

\* "pair in base_rates" raises TypeError for a pair given as a list, and the
\* except clause of line 213 answers with the error_fallback record
_generate_realistic_data(pair) == IF Hashable(pair) THEN "simulated" ELSE "error_fallback"

Fetched(data, cache, times, how) ==
    [data |-> data, cache |-> cache, times |-> times, how |-> how]

\* lines 44-54 with no substitute: nothing is returned and nothing is cached
substitute_and_cache_nothing(pair, primary, outcome) ==
    IF ~Falsy(Snapshot(primary, pair))
    THEN Fetched(primary, Put(data_cache, pair, primary),
                 Put(last_update_time, pair, now), outcome)
    ELSE Fetched("none", data_cache, last_update_time, outcome)

\* lines 44-56: substitute for a source that gave nothing, then cache; the
\* write of line 50 raises TypeError for a pair given as a list, and the
\* except clause of line 55 answers with a new record, uncached
substitute_and_cache(pair, primary, outcome) ==
    LET first == IF Falsy(Snapshot(primary, pair)) THEN _fetch_from_fallback_sources
                 ELSE primary
        data == IF Falsy(Snapshot(first, pair)) THEN _generate_realistic_data(pair) ELSE first
    IN IF Falsy(Snapshot(data, pair))
       THEN Fetched(data, data_cache, last_update_time, outcome)
       ELSE IF ~Hashable(pair)
       THEN Fetched(_generate_realistic_data(pair), data_cache, last_update_time, outcome)
       ELSE Fetched(data, Put(data_cache, pair, data), Put(last_update_time, pair, now), outcome)

get_real_time_data(pair, outcome, within30) ==
    IF _is_data_cached(pair, within30)
    THEN Fetched(data_cache[pair], data_cache, last_update_time, "cached")
    ELSE substitute_and_cache(pair, _fetch_from_primary_source(pair, outcome), outcome)

\* generate_signal(pair) with the provider's answer f
RequestSignal(pair, d, f) ==
    /\ signal_count < MaxSignals
    /\ Complete("generate_signal", pair, f.data, NoneValue,
                generate_signal(pair, Snapshot(f.data, pair), d))
    /\ data_cache' = f.cache
    /\ last_update_time' = f.times
    /\ fetch' = f.how
    /\ UNCHANGED <<now, last_signal_time, threads, cycle, market_sessions, millis, signals>>

NextProvider ==
    \/ Tick
    \/ \E pair \in Pairs, outcome \in FetchOutcomes, within30 \in BOOLEAN, d \in SystemDraws :
          RequestSignal(pair, d, get_real_time_data(pair, outcome, within30))

SpecProvider == Init /\ [][NextProvider]_vars

\* the provider under the callers that pass any object as the pair
NextProviderCallers ==
    \/ Tick
    \/ \E pair \in Pairs \cup {UnhashablePair}, outcome \in FetchOutcomes,
          within30 \in BOOLEAN, d \in SystemDraws :
          RequestSignal(pair, d, get_real_time_data(pair, outcome, within30))

SpecProviderCallers == Init /\ [][NextProviderCallers]_vars

----------------------------------------------------------------------------
(* Callers of the library that pass any object as the pair: the engine     *)
(* under calls for the two pairs and for a pair given as a list.  For a    *)
(* list the provider answers with its error_fallback record (the TypeError *)
(* of its own cache is caught at market_data.py 54-56 and 213-222).        *)

NextCallers ==
    \/ Tick
    \/ \E pair \in Pairs \cup {UnhashablePair},
          snapshot \in {"rising", "none_price", "error_fallback"}, d \in SystemDraws :
          /\ Hashable(pair) \/ snapshot = "error_fallback"
          /\ GenerateSignal(pair, snapshot, d)

SpecCallers == Init /\ [][NextCallers]_vars

----------------------------------------------------------------------------
(* Calls without a pair (the dashboard's /api/signal/generate with no pair *)
(* argument): generate_signal selects the pair itself                      *)

\* generate_signal(None)
GenerateSignalForOptimalPair(u, snapshot, d) ==
    GenerateSignal(_select_optimal_pair(u), snapshot, d)

NextSelection ==
    \E u \in 1..Len(high_performance_pairs), d \in SystemDraws : GenerateSignalForOptimalPair(u, "rising", d)

SpecSelection == InitAnyHour /\ [][NextSelection]_vars

----------------------------------------------------------------------------
(* The bot's commands: a signal is generated for the pair and the          *)
(* timeframe the user picked and, when there is one, added to the history. *)
(* The clock is followed to the millisecond.                               *)

\* the clock is followed up to this many milliseconds past the minute
MaxMillis == 2100

TickMillis(step) ==
    /\ millis + step <= MaxMillis
    /\ millis' = millis + step
    /\ UNCHANGED <<now, analysis_cache, last_analysis_time, accuracy_tracker, signal_count,
                   last_signal_time, call, ret, threads, cycle,
                   data_cache, last_update_time, fetch, market_sessions, signals>>

\* SignalHistory.add_signal: the record appended, with the instant it was made
add_signal(signal) ==
    Append(signals, [signal_id |-> signal.signal_id, pair |-> signal.pair,
                     at |-> current_time])

\* BotCommands.generate_signal_with_timeframe_and_pair
GenerateAndStore(expiration_minutes, pair, d) ==
    /\ signal_count < MaxSignals
    /\ Complete("generate_signal_with_timeframe", pair, "rising", expiration_minutes,
                generate_signal_with_timeframe(expiration_minutes, pair,
                                               Snapshot("rising", pair), d))
    /\ signals' = IF ret'.val # None THEN add_signal(ret'.val) ELSE signals
    /\ UNCHANGED <<now, last_signal_time, threads, cycle,
                   data_cache, last_update_time, fetch, market_sessions, millis>>

NextCommands ==
    \/ \E step \in {400, 700} : TickMillis(step)
    \/ \E pair \in Pairs, d \in SystemDraws : GenerateAndStore(5, pair, d)

SpecCommands == Init /\ [][NextCommands]_vars

----------------------------------------------------------------------------
(* The automated cycle beside the on-demand calls of the bot, on one       *)
(* engine, over the first minutes after its construction                   *)

NextOnDemandAndAutomated ==
    \/ Tick
    \/ \E snapshot \in CycleSnapshots, d \in SystemDraws, interval \in Intervals :
          VisitPair(snapshot, d, interval)
    \/ \E pair \in Pairs, d \in SystemDraws :
          GenerateSignalWithTimeframe(5, pair, "rising", d)

SpecOnDemandAndAutomated == Init /\ [][NextOnDemandAndAutomated]_vars

----------------------------------------------------------------------------
(* Properties.  A step that leaves the clock alone is a call, and call' is  *)
(* the record of that call.                                                *)

\* C1: a call of analyze_market for a pair less than 5 minutes after the
\* pair's cache write returns the cached result as it is, whatever snapshot
\* it is given, runs no sub-analysis, and leaves analysis_cache and
\* last_analysis_time as they were.
C1_CacheHitReturnsCached ==
    [][\A p \in Pairs :
          (/\ now' = now
           /\ call'.pair = p
           /\ "analyze_market" \in call'.ran
           /\ HasKey(analysis_cache, p)
           /\ HasKey(last_analysis_time, p)
           /\ now - last_analysis_time[p] < 5)
          => /\ call'.analysis = analysis_cache[p]
             /\ "sub_analyses" \notin call'.ran
             /\ analysis_cache' = analysis_cache
             /\ last_analysis_time' = last_analysis_time]_vars

\* C1 witness: a call answered from a cache entry written 1 to 4 minutes
\* before, with a result that no analysis of the snapshot it was given
\* could have produced.
C1_Witness ==
    /\ call.op = "generate_signal"
    /\ call.ran = {"analyze_market", "predict_direction"}
    /\ HasKey(last_analysis_time, call.pair)
    /\ now - last_analysis_time[call.pair] \in 1..4
    /\ call.analysis = analysis_cache[call.pair]
    /\ \A d \in SystemAnalysisDraws :
          compute_analysis(Snapshot(call.snapshot, call.pair), d) # call.analysis

\* C2: a call of analyze_market for a pair with no cache entry, or 5 minutes
\* or more after the pair's cache write, runs the sub-analyses on the
\* snapshot it is given, stores that result as the pair's cache entry and
\* sets last_analysis_time[pair] to the time of the call; a call answered
\* without the sub-analyses had an entry younger than 5 minutes.
C2_StaleEntryRecomputed ==
    [][\A p \in Pairs :
          (/\ now' = now
           /\ call'.pair = p
           /\ "analyze_market" \in call'.ran)
          => /\ (\/ ~HasKey(analysis_cache, p)
                 \/ ~HasKey(last_analysis_time, p)
                 \/ now - last_analysis_time[p] >= 5)
                => /\ "sub_analyses" \in call'.ran
                   /\ call'.analysis \in
                         {compute_analysis(Snapshot(call'.snapshot, p), d) :
                             d \in SystemAnalysisDraws}
                   /\ HasKey(analysis_cache', p)
                   /\ analysis_cache'[p] = call'.analysis
                   /\ HasKey(last_analysis_time', p)
                   /\ last_analysis_time'[p] = now
             /\ "sub_analyses" \notin call'.ran
                => /\ HasKey(last_analysis_time, p)
                   /\ now - last_analysis_time[p] < 5]_vars

\* C2 witness: a call made at minute 5 or later that replaced an entry with
\* a fresh analysis of its own snapshot, stamped with the time of the call:
\* the pair's second call, the first having written the entry replaced.
C2_Witness ==
    /\ now >= 5
    /\ call.op = "generate_signal"
    /\ "sub_analyses" \in call.ran
    /\ HasKey(last_analysis_time, call.pair)
    /\ last_analysis_time[call.pair] = now
    /\ analysis_cache[call.pair] = call.analysis
    /\ signal_count = 2
    /\ accuracy_tracker[call.pair].total_predictions = 2

\* C3: at any time at most one computation of the sub-analyses is in
\* progress for a pair, however many callers ask for that pair at once.
C3_SingleFlight == \A p \in Pairs : Cardinality(InFlight(p)) <= 1

\* C4: a call of generate_signal or generate_signal_with_timeframe whose
\* snapshot is None or an empty record returns no Signal, runs neither the
\* Analyzer nor the Predictor, and leaves analysis_cache, last_analysis_time,
\* accuracy_tracker and signal_count as they were.
C4_NothingIsAHardStop ==
    [][(/\ now' = now
        /\ call'.snapshot \in Nothing)
       => /\ ret'.val = None
          /\ call'.ran = {}
          /\ analysis_cache' = analysis_cache
          /\ last_analysis_time' = last_analysis_time
          /\ accuracy_tracker' = accuracy_tracker
          /\ signal_count' = signal_count]_vars

\* C4 witness: a call with an empty record, made on an engine that already
\* holds a cache entry and a tracker entry for the pair, has returned None.
C4_Witness ==
    /\ call.op = "generate_signal_with_timeframe"
    /\ call.snapshot = "empty"
    /\ call.ran = {}
    /\ ret.val = None
    /\ HasKey(analysis_cache, call.pair)
    /\ HasKey(accuracy_tracker, call.pair)
    /\ signal_count = 1

\* C5: no call raises to its caller: whenever the Analyzer ran it returned
\* an analysis, whenever the Predictor ran it returned a prediction, and
\* generate_signal and generate_signal_with_timeframe returned None or a
\* Signal with all its fields.
C5_NoStageRaises ==
    /\ ret.exc = FALSE
    /\ "analyze_market" \in call.ran
       => {"trend", "trend_strength", "volatility", "market_score"}
             \subseteq DOMAIN call.analysis
    /\ "predict_direction" \in call.ran
       => {"direction", "confidence", "call_probability", "put_probability",
           "model_type", "prediction_strength", "reasoning"}
             \subseteq DOMAIN call.prediction
    /\ \/ ret.val = None
       \/ DOMAIN ret.val = {"pair", "direction", "entry_price", "current_price",
                            "expiration_minutes", "confidence", "risk_level",
                            "analysis", "timestamp", "signal_id"}

\* C5 witness: generate_signal on a snapshot without a price: every
\* sub-analysis that reads the price failed, the Analyzer and the Predictor
\* still returned, the signal could not be built, and the call returned None.
C5_Witness ==
    /\ call.op = "generate_signal"
    /\ call.snapshot = "no_price"
    /\ call.ran = {"analyze_market", "sub_analyses", "predict_direction"}
    /\ call.analysis.technical = EmptyDict
    /\ ret.exc = FALSE
    /\ ret.val = None

\* C6: every Signal returned, whether its expiration was computed or
\* supplied by the caller, has expiration_minutes in [5, 60].
C6_ExpirationInRange ==
    ret.val # None => ret.val.expiration_minutes \in 5..60

\* C6 as amended: a Signal whose expiration was computed (generate_signal,
\* or generate_signal_with_timeframe given None) has expiration_minutes in
\* [5, 60]; a Signal built for a supplied expiration carries that value
\* unchanged, inside [5, 60] or not.
C6_ExpirationComputedOrSupplied ==
    ret.val # None
    => IF call.expiration = NoneValue
       THEN ret.val.expiration_minutes \in 5..60
       ELSE ret.val.expiration_minutes = call.expiration

\* C6 witness: the 4-hour button: a Signal that expires after 240 minutes.
C6_Witness ==
    /\ call.op = "generate_signal_with_timeframe"
    /\ call.expiration = 240
    /\ ret.val # None
    /\ ret.val.expiration_minutes = 240

\* C7: for every prediction returned by predict_direction, direction is
\* CALL exactly when the reported call_probability is above 50.
C7_CallIffAboveFifty ==
    "predict_direction" \in call.ran
    => (call.prediction.direction = "CALL" <=> call.prediction.call_probability > 5000)

\* C7 as amended: a reported call_probability above 50 goes with CALL and
\* one below 50 with PUT; at a reported 50.0 (the default prediction, or a
\* probability that rounds to 50.0) the direction is CALL or PUT.
C7_DirectionFollowsProbability ==
    "predict_direction" \in call.ran
    => /\ call.prediction.call_probability > 5000 => call.prediction.direction = "CALL"
       /\ call.prediction.call_probability < 5000 => call.prediction.direction = "PUT"
       /\ call.prediction.direction \in {"CALL", "PUT"}

\* C7 witness: a prediction computed from a well-formed snapshot whose
\* probability of 50.04 is reported as 50.0 with the direction CALL.
C7_Witness ==
    /\ "predict_direction" \in call.ran
    /\ call.snapshot \in WellFormed
    /\ call.prediction.call_probability = 5000
    /\ call.prediction.put_probability = 5000
    /\ call.prediction.direction = "CALL"

\* C8: every prediction returned by predict_direction, from any model
\* bucket or the default, has confidence in [65, 95].
C8_ConfidenceInRange ==
    "predict_direction" \in call.ran
    => call.prediction.confidence \in 6500..9500

\* C8 witness: a short-term prediction whose probabilities would give a
\* confidence below 65, reported with confidence 65.
C8_Witness ==
    /\ "predict_direction" \in call.ran
    /\ call.prediction.model_type = "short_term"
    /\ call.prediction.call_probability \in 4500..5500
    /\ call.prediction.confidence = 6500

\* C9: every analysis returned by analyze_market or held in the cache, and
\* the neutral fallback, has market_score in [0, 1], volatility in [0.1, 1]
\* and trend_strength in [0.1, 1].
C9_AnalysisInRange ==
    LET InRange(a) == /\ a.market_score \in 0..Million
                      /\ a.volatility \in (One \div 10)..One
                      /\ a.trend_strength \in (One \div 10)..One
    IN /\ "analyze_market" \in call.ran => InRange(call.analysis)
       /\ \A p \in DOMAIN analysis_cache : InRange(analysis_cache[p])
       /\ InRange(_get_default_analysis)

\* C9 witness: the analysis of a snapshot with a negative volume, whose
\* trend_strength is held at 0.1.
C9_Witness ==
    /\ call.snapshot = "negative_volume"
    /\ "sub_analyses" \in call.ran
    /\ call.analysis.trend_strength = One \div 10
    /\ analysis_cache["EUR/USD"] = call.analysis

\* C10: the risk_level of a Signal is the level of risk_score = (2 if
\* confidence < 70, else 1 if confidence < 85) + (2 if volatility > 0.8,
\* else 1 if volatility > 0.6) + (1 if trend_strength < 0.4): LOW up to 1,
\* MEDIUM up to 3, HIGH above.
C10_RiskLevelFromTable ==
    ret.val # None
    => LET confidence == ret.val.confidence
           volatility == call.analysis.volatility
           trend_strength == call.analysis.trend_strength
           risk_score == (IF confidence < 7000 THEN 2 ELSE IF confidence < 8500 THEN 1 ELSE 0)
                         + (IF volatility > 8000 THEN 2 ELSE IF volatility > 6000 THEN 1 ELSE 0)
                         + (IF trend_strength < 4000 THEN 1 ELSE 0)
       IN ret.val.risk_level = (IF risk_score <= 1 THEN "LOW"
                                ELSE IF risk_score <= 3 THEN "MEDIUM"
                                ELSE "HIGH")

\* C10 witness: a Signal of risk HIGH: confidence below 70 and volatility
\* above 0.8.
C10_Witness ==
    /\ ret.val # None
    /\ ret.val.risk_level = "HIGH"
    /\ ret.val.confidence < 7000
    /\ call.analysis.volatility > 8000

\* C11: on the automated path a pair that has a last automated signal is
\* eligible only when more than the drawn interval, so more than 8 minutes,
\* have passed since it, and is always eligible when more than 18 minutes
\* have passed; two automated signals for a pair are never 8 minutes or less
\* apart.
C11_AutomatedSignalsSpaced ==
    [][(now' = now /\ cycle' # cycle /\ HasKey(last_signal_time, cycle'.pair))
       => /\ cycle'.eligible => now - last_signal_time[cycle'.pair] > 8
          /\ cycle'.issued
             => /\ now - last_signal_time[cycle'.pair] > 8
                /\ last_signal_time'[cycle'.pair] = now
          /\ now - last_signal_time[cycle'.pair] > 18 => cycle'.eligible]_vars

\* C11 witness: the second automated signal of a pair, issued 9 to 18
\* minutes after the first.
C11_Witness ==
    /\ cycle.issued
    /\ now \in 9..18
    /\ last_signal_time[cycle.pair] = now
    /\ accuracy_tracker[cycle.pair].total_predictions = 2
    /\ ret.val # None
    /\ ret.val.pair = cycle.pair


\* C12: N interleaved predict_direction calls for one pair, the first calls
\* included, leave total_predictions at exactly N with no update lost and
\* correct_predictions at most total_predictions.
C12_NoLostUpdate ==
    (\A t \in Threads : threads[t].pc = "returned")
    => \A pair \in Pairs :
         Returned(pair) # {}
         => /\ HasKey(accuracy_tracker, pair)
            /\ accuracy_tracker[pair].total_predictions = Cardinality(Returned(pair))
            /\ accuracy_tracker[pair].correct_predictions
                 <= accuracy_tracker[pair].total_predictions


C14_FailureReturnsNeutralUncached ==
    [][(now' = now /\ "analyze_market" \in call'.ran)
       => /\ ~Hashable(call'.pair) => "_get_default_analysis" \in call'.ran
          /\ "_get_default_analysis" \in call'.ran
             => /\ call'.analysis = [trend |-> "sideways", trend_strength |-> 5000,
                                     volatility |-> 5000, market_score |-> 500000,
                                     sentiment |-> [sentiment_label |-> "neutral"],
                                     patterns |-> [pattern_signal |-> "neutral"]]
                /\ analysis_cache' = analysis_cache
                /\ last_analysis_time' = last_analysis_time
                /\ ~HasKey(analysis_cache', call'.pair)
                /\ "sub_analyses" \in call'.ran
          /\ \A pair \in DOMAIN analysis_cache' :
                DOMAIN analysis_cache'[pair] # DOMAIN _get_default_analysis]_vars

\* C14: a failing call, made after a call that cached the analysis of another
\* pair, has run the sub-analyses and returned the neutral analysis
C14_Witness ==
    /\ "_get_default_analysis" \in call.ran
    /\ "sub_analyses" \in call.ran
    /\ signal_count = 2
    /\ analysis_cache # EmptyDict
    /\ ret.val # None
    /\ ~HasKey(analysis_cache, call.pair)


\* C15: a sub-analysis that fails yields its own default and stops nothing:
\* every other sub-analysis and market_score are computed, and the assembled
\* result is returned and cached for the pair.  (The sentiment and the
\* patterns read nothing of the snapshot and cannot fail.)
C15_SubAnalysisFailureIsLocal ==
    (call.op # "init" /\ Hashable(call.pair) /\ ~Falsy(Snapshot(call.snapshot, call.pair)))
    => LET md == Snapshot(call.snapshot, call.pair)
           a == call.analysis
           d0 == CHOOSE d \in AnalysisDraws : TRUE
       IN /\ DOMAIN a = {"technical", "trend", "trend_strength", "volatility",
                         "support_resistance", "sentiment", "volume_analysis",
                         "patterns", "market_score"}
          /\ technical_body(md, d0).exc => a.technical = <<>>
          /\ ~technical_body(md, d0).exc
             => /\ a.technical.ma20 = technical_body(md, d0).val.ma20
                /\ a.technical.ma_signal = technical_body(md, d0).val.ma_signal
          /\ a.trend = IF trend_body(md).exc THEN "sideways" ELSE trend_body(md).val
          /\ a.trend_strength = IF trend_strength_body(md).exc THEN 5000
                                ELSE trend_strength_body(md).val
          /\ a.volatility = IF volatility_body(md).exc THEN 5000
                            ELSE volatility_body(md).val
          /\ support_resistance_body(md, d0).exc => a.support_resistance = <<>>
          /\ ~support_resistance_body(md, d0).exc
             => DOMAIN a.support_resistance
                  = {"resistance", "support", "resistance_distance", "support_distance",
                     "near_resistance", "near_support"}
          /\ a.volume_analysis = IF volume_body(md).exc
                                 THEN [volume_trend |-> "stable", volume_strength |-> 10000]
                                 ELSE volume_body(md).val
          /\ "sentiment_score" \in DOMAIN a.sentiment
          /\ "pattern_strength" \in DOMAIN a.patterns
          /\ a.market_score = _calculate_market_score(a)
          /\ analysis_cache = (call.pair :> a)
          /\ last_analysis_time = (call.pair :> now)

\* C15: the volatility, trend strength, support/resistance and volume
\* analyses failed on a history with a hole in it, the technical and trend
\* analyses went through, and the result was cached
C15_Witness ==
    /\ call.snapshot = "malformed_history"
    /\ call.analysis.volatility = 5000
    /\ call.analysis.support_resistance = <<>>
    /\ call.analysis.trend = "bullish"
    /\ call.analysis.technical.ma_signal = "bearish"
    /\ analysis_cache["EUR/USD"] = call.analysis


\* C16: for a snapshot with a rising 20-point history that ends at the current
\* price, volume 1.0 and a last 3-point rise above 0.1%, the trend is bullish
\* and market_score is above 0.5 whatever the RSI, sentiment and pattern draws.
C16_RisingScoresAboveBaseline ==
    (call.op # "init" /\ call.snapshot = "rising20")
    => /\ call.analysis.trend = "bullish"
       /\ call.analysis.market_score > 500000

\* C16, amended: for that snapshot the trend is bullish with trend_strength
\* 0.5, which adds 0.075 to the score; market_score is above 0.5 exactly when
\* the moving-average, RSI, sentiment and pattern terms of the same result sum
\* to more than -0.075.
C16_RisingIsBullishScoreFollowsDraws ==
    (call.op # "init" /\ call.snapshot = "rising20")
    => LET a == call.analysis
           others == (IF a.technical.ma_signal = "bullish" THEN 100000
                      ELSE IF a.technical.ma_signal = "bearish" THEN 0 - 100000 ELSE 0)
                     + (IF a.technical.rsi_signal = "oversold" THEN 50000
                        ELSE IF a.technical.rsi_signal = "overbought" THEN 0 - 50000 ELSE 0)
                     + 10 * a.sentiment.sentiment_score
                     + (IF a.patterns.pattern_signal = "bullish"
                        THEN 10 * a.patterns.pattern_strength
                        ELSE IF a.patterns.pattern_signal = "bearish"
                        THEN 0 - 10 * a.patterns.pattern_strength ELSE 0)
       IN /\ a.trend = "bullish"
          /\ a.trend_strength = 5000
          /\ a.market_score > 500000 <=> others > 0 - 75000

\* C16: the rising snapshot was analysed as bullish and scored below the
\* baseline under an overbought RSI and bearish sentiment
C16_Witness ==
    /\ call.op # "init"
    /\ call.snapshot = "rising20"
    /\ call.analysis.trend = "bullish"
    /\ call.analysis.technical.rsi_signal = "overbought"
    /\ call.analysis.sentiment.sentiment_label = "bearish"
    /\ call.analysis.market_score < 500000


\* C17: in every analysis the analyzer returns, the neutral fallback included,
\* market_score is 0.5 plus 0.1 for a bullish and minus 0.1 for a bearish MA
\* cross, plus 0.05 for an oversold and minus 0.05 for an overbought RSI, plus
\* or minus 0.15 * trend_strength for a bullish or bearish trend, plus
\* 0.10 * sentiment_score, plus or minus 0.10 * pattern_strength for a bullish
\* or bearish pattern, clamped to [0, 1], all read from the same result.
C17_ScoreIsFunctionOfFields ==
    "analyze_market" \in call.ran
    => LET a == call.analysis
           ma == IF "technical" \notin DOMAIN a \/ "ma_signal" \notin DOMAIN a.technical THEN 0
                 ELSE IF a.technical.ma_signal = "bullish" THEN 100000
                 ELSE IF a.technical.ma_signal = "bearish" THEN 0 - 100000 ELSE 0
           rsi == IF "technical" \notin DOMAIN a \/ "rsi_signal" \notin DOMAIN a.technical THEN 0
                  ELSE IF a.technical.rsi_signal = "oversold" THEN 50000
                  ELSE IF a.technical.rsi_signal = "overbought" THEN 0 - 50000 ELSE 0
           trend == IF a.trend = "bullish" THEN 15 * a.trend_strength
                    ELSE IF a.trend = "bearish" THEN 0 - 15 * a.trend_strength ELSE 0
           sentiment == IF "sentiment_score" \in DOMAIN a.sentiment
                        THEN 10 * a.sentiment.sentiment_score ELSE 0
           pattern == IF "pattern_strength" \notin DOMAIN a.patterns THEN 0
                      ELSE IF a.patterns.pattern_signal = "bullish"
                      THEN 10 * a.patterns.pattern_strength
                      ELSE IF a.patterns.pattern_signal = "bearish"
                      THEN 0 - 10 * a.patterns.pattern_strength ELSE 0
           sum == 500000 + ma + rsi + trend + sentiment + pattern
       IN a.market_score = IF sum < 0 THEN 0 ELSE IF sum > 1000000 THEN 1000000 ELSE sum

\* C17: an analysis with a bearish MA cross, an oversold RSI, a bullish trend,
\* bullish sentiment and a bearish pattern, every term of the sum at work
C17_Witness ==
    /\ "sub_analyses" \in call.ran
    /\ Hashable(call.pair)
    /\ call.analysis.technical # <<>>
    /\ call.analysis.technical.ma_signal = "bearish"
    /\ call.analysis.technical.rsi_signal = "oversold"
    /\ call.analysis.trend = "bullish"
    /\ call.analysis.sentiment.sentiment_score = 10000
    /\ call.analysis.patterns.pattern_signal = "bearish"
    /\ call.analysis.market_score = 500000 - 100000 + 50000 + 75000 + 100000 - 30000


\* C18: the pair selected for a call that supplies none is one of the
\* high-performance pairs that are active when there is such a pair, else one
\* of the active pairs, and EUR/USD when no pair is active; a pair that is not
\* active is selected only as that fallback.  The active pairs are those
\* get_active_pairs lists: the pairs with a session marked active, or the
\* major pairs when no session is.
C18_SelectedPairIsActive ==
    call.op # "init"
    => LET all == {<<"EUR/USD", {"european", "us"}>>, <<"GBP/USD", {"european", "us"}>>,
                   <<"USD/JPY", {"asian", "us"}>>, <<"AUD/USD", {"asian", "us"}>>,
                   <<"EUR/CHF", {"european"}>>, <<"AUD/JPY", {"asian"}>>,
                   <<"GBP/JPY", {"european", "asian"}>>, <<"EUR/GBP", {"european"}>>,
                   <<"NZD/USD", {"asian", "us"}>>, <<"USD/CHF", {"european", "us"}>>,
                   <<"USD/CAD", {"us"}>>, <<"EUR/JPY", {"european", "asian"}>>}
           in_session == {x[1] : x \in {y \in all : y[2] \cap market_sessions # {}}}
           active == IF in_session = {} THEN {"EUR/USD", "GBP/USD", "USD/JPY", "AUD/USD"}
                     ELSE in_session
           preferred == active \cap {"EUR/CHF", "AUD/JPY", "GBP/USD", "USD/JPY",
                                     "EUR/USD", "GBP/JPY", "AUD/USD", "NZD/USD"}
       IN /\ preferred # {} => call.pair \in preferred
          /\ preferred = {} /\ active # {} => call.pair \in active
          /\ active = {} => call.pair = "EUR/USD"
          /\ call.pair \notin active => call.pair = "EUR/USD"

\* C18: an engine constructed in the Asian session only has selected AUD/JPY
\* and issued a signal for it
C18_Witness ==
    /\ market_sessions = {"asian"}
    /\ call.op = "generate_signal"
    /\ call.pair = "AUD/JPY"
    /\ ret.val # None
    /\ ret.val.pair = "AUD/JPY"


\* C19: every prediction returned for a pair, the default result included,
\* raises that pair's total_predictions by exactly one (from 0 for a pair
\* without counters) and correct_predictions by at most one, and touches no
\* other pair's counters; a call that returns no prediction touches none.  In
\* every entry 0 <= correct_predictions <= total_predictions and
\* recent_accuracy is correct_predictions / total_predictions.  (A pair given
\* as a list has no counters.)
C19_TrackerCountsPredictions ==
    [][now' = now
       => /\ ("predict_direction" \in call'.ran /\ Hashable(call'.pair))
             => /\ HasKey(accuracy_tracker', call'.pair)
                /\ accuracy_tracker'[call'.pair].total_predictions
                     = (IF HasKey(accuracy_tracker, call'.pair)
                        THEN accuracy_tracker[call'.pair].total_predictions ELSE 0) + 1
                /\ accuracy_tracker'[call'.pair].correct_predictions
                     - (IF HasKey(accuracy_tracker, call'.pair)
                        THEN accuracy_tracker[call'.pair].correct_predictions ELSE 0) \in {0, 1}
          /\ \A pair \in Pairs :
                (pair # call'.pair \/ "predict_direction" \notin call'.ran)
                => /\ HasKey(accuracy_tracker', pair) <=> HasKey(accuracy_tracker, pair)
                   /\ HasKey(accuracy_tracker, pair)
                      => accuracy_tracker'[pair] = accuracy_tracker[pair]
          /\ DOMAIN accuracy_tracker' \subseteq Pairs
          /\ \A pair \in DOMAIN accuracy_tracker' :
                /\ 0 <= accuracy_tracker'[pair].correct_predictions
                /\ accuracy_tracker'[pair].correct_predictions
                     <= accuracy_tracker'[pair].total_predictions
                /\ accuracy_tracker'[pair].recent_accuracy
                     = (accuracy_tracker'[pair].correct_predictions * 10000)
                          \div accuracy_tracker'[pair].total_predictions]_vars

\* C19: the second prediction for a pair fell back to the default result and
\* was counted
C19_Witness ==
    /\ call.snapshot = "none_price"
    /\ "predict_direction" \in call.ran
    /\ call.prediction.call_probability = 5000
    /\ call.prediction.prediction_strength = "MODERATE"
    /\ accuracy_tracker[call.pair].total_predictions = 2
    /\ accuracy_tracker[call.pair].correct_predictions = 1
    /\ accuracy_tracker[call.pair].recent_accuracy = 5000


\* C20: a Signal's id is its pair joined with the whole second of its
\* generation, so two Signals of one process carry the same id if and only
\* if they are for the same pair and were generated in the same second.
C20_SameIdIffSamePairAndSecond ==
    \A i, j \in 1..Len(signals) :
       /\ signals[i].signal_id = signals[i].pair \o "_" \o ToString(signals[i].at \div 1000)
       /\ signals[i].signal_id = signals[j].signal_id
          <=> /\ signals[i].pair = signals[j].pair
              /\ signals[i].at \div 1000 = signals[j].at \div 1000

\* C20: two Signals for one pair, generated 700 ms apart within one second,
\* carry the same id
C20_Witness ==
    /\ Len(signals) = 2
    /\ signals[1].pair = signals[2].pair
    /\ signals[1].at = 1100
    /\ signals[2].at = 1800
    /\ signals[1].signal_id = "EUR/USD_1"
    /\ signals[2].signal_id = "EUR/USD_1"


\* C21: a computed expiration is a base from [5, 10] for a confidence above
\* 85, from [10, 20] for one above 70 up to 85 and from [15, 30] otherwise,
\* then max(5, base - 5) for a volatility above 0.7, base + 10 for one below
\* 0.3 and the base otherwise, then clamped to [5, 60]; a confidence above 85
\* with a volatility above 0.7 always gives 5.
C21_ExpirationFromBands ==
    (ret.val # None /\ call.expiration = NoneValue)
    => LET confidence == ret.val.confidence
           volatility == call.analysis.volatility
           band == IF confidence > 8500 THEN 5..10
                   ELSE IF confidence > 7000 THEN 10..20
                   ELSE 15..30
           shifted(b) == IF volatility > 7000 THEN (IF b - 5 > 5 THEN b - 5 ELSE 5)
                         ELSE IF volatility < 3000 THEN b + 10
                         ELSE b
           clamped(x) == IF x < 5 THEN 5 ELSE IF x > 60 THEN 60 ELSE x
       IN /\ ret.val.expiration_minutes \in {clamped(shifted(b)) : b \in band}
          /\ (confidence > 8500 /\ volatility > 7000) => ret.val.expiration_minutes = 5

\* C21: a Signal of confidence above 85 on a market of volatility above 0.7,
\* with the computed expiration 5
C21_Witness ==
    /\ call.expiration = NoneValue
    /\ ret.val # None
    /\ ret.val.confidence > 8500
    /\ call.analysis.volatility > 7000
    /\ ret.val.expiration_minutes = 5


\* C22: a Signal built by generate_signal_with_timeframe for a supplied
\* expiration carries that value unchanged, in its expiration_minutes and in
\* the timeframe clause of its text, whatever the confidence and the
\* volatility; the calculation gives the value only when None was supplied.
C22_SuppliedExpirationIsKept ==
    (call.op = "generate_signal_with_timeframe" /\ ret.val # None)
    => IF call.expiration # NoneValue
       THEN /\ ret.val.expiration_minutes = call.expiration
            /\ ret.val.analysis.clauses[1][2] = call.expiration
       ELSE /\ ret.val.expiration_minutes
                 \in (IF ret.val.confidence > 8500 THEN 5..20
                      ELSE IF ret.val.confidence > 7000 THEN 5..30
                      ELSE 10..40)
            /\ ret.val.analysis.clauses[1][2] = ret.val.expiration_minutes

\* C22: a Signal for a supplied expiration of 1 minute, a value the
\* calculation never gives, on a market of low volatility
C22_Witness ==
    /\ call.op = "generate_signal_with_timeframe"
    /\ call.expiration = 1
    /\ ret.val # None
    /\ ret.val.expiration_minutes = 1
    /\ call.analysis.volatility < 3000


\* C23: the model bucket is short_term when volatility > 0.7 or
\* trend_strength > 0.8, else long_term when volatility < 0.3 or
\* trend_strength < 0.3, else medium_term; a short-term condition wins over a
\* long-term one.  The bucket is the model_type of every prediction but the
\* default result, made when the price is None.
C23_BucketFromThresholds ==
    "predict_direction" \in call.ran
    => LET volatility == call.analysis.volatility
           trend_strength == call.analysis.trend_strength
           bucket == IF volatility > 7000 \/ trend_strength > 8000 THEN "short_term"
                     ELSE IF volatility < 3000 \/ trend_strength < 3000 THEN "long_term"
                     ELSE "medium_term"
           md == Snapshot(call.snapshot, call.pair)
       IN /\ _select_model_type(call.analysis) = bucket
          /\ call.prediction.model_type
               = (IF HasKey(md, "price") /\ ~IsNum(md.price) THEN "medium_term" ELSE bucket)

\* C23: a prediction of the short_term model on a market with volatility
\* above 0.7 and trend_strength below 0.3
C23_Witness ==
    /\ "predict_direction" \in call.ran
    /\ call.analysis.volatility > 7000
    /\ call.analysis.trend_strength < 3000
    /\ call.prediction.model_type = "short_term"


\* C24: with change = (last price - price three steps back) / that earlier
\* price, the trend is bullish when change > 0.1%, bearish when change <
\* -0.1% and sideways otherwise: at exactly +0.1% or -0.1%, for a history of
\* fewer than 3 points, and when the computation fails (no price, a None in
\* the history, an earlier price of 0).
C24_TrendFromThreeStepChange ==
    ("sub_analyses" \in call.ran /\ Hashable(call.pair))
    => LET md == Snapshot(call.snapshot, call.pair)
           history == IF HasKey(md, "price_history") THEN md.price_history
                      ELSE <<md.price, md.price, md.price>>
           n == Len(history)
           computed == /\ HasKey(md, "price")
                       /\ n >= 3
                       /\ history[n] # NoneValue
                       /\ history[n - 2] > 0
       IN call.analysis.trend =
             (IF ~computed THEN "sideways"
              ELSE IF (history[n] - history[n - 2]) * 1000 > history[n - 2] THEN "bullish"
              ELSE IF (history[n] - history[n - 2]) * 1000 < 0 - history[n - 2] THEN "bearish"
              ELSE "sideways")

\* C24: a history whose last price is exactly 0.1% above the price three
\* steps back was analysed as sideways
C24_Witness ==
    /\ "sub_analyses" \in call.ran
    /\ call.snapshot = "edge_up"
    /\ (Snapshot("edge_up", call.pair).price_history[3]
          - Snapshot("edge_up", call.pair).price_history[1]) * 1000
         = Snapshot("edge_up", call.pair).price_history[1]
    /\ call.analysis.trend = "sideways"
    /\ call.analysis.trend_strength = 8000


\* C25: for a snapshot with a price whose price_history has 2 or more
\* entries, all equal and not zero, the analysis computed has trend sideways
\* and volatility exactly 0.1, the floor.
C25_FlatHistoryIsSidewaysAtFloor ==
    ("sub_analyses" \in call.ran /\ Hashable(call.pair))
    => LET md == Snapshot(call.snapshot, call.pair)
       IN (/\ HasKey(md, "price")
           /\ HasKey(md, "price_history")
           /\ Len(md.price_history) >= 2
           /\ \A i \in 1..Len(md.price_history) :
                 md.price_history[i] = md.price_history[1]
           /\ md.price_history[1] \notin {0, NoneValue})
          => /\ call.analysis.trend = "sideways"
             /\ call.analysis.volatility = 1000

\* C25: a flat history of two points was analysed as sideways with
\* volatility 0.1, and the result cached
C25_Witness ==
    /\ "sub_analyses" \in call.ran
    /\ call.snapshot = "flat2"
    /\ Snapshot("flat2", call.pair).price_history = <<10850, 10850>>
    /\ call.analysis.trend = "sideways"
    /\ call.analysis.volatility = 1000
    /\ analysis_cache[call.pair] = call.analysis


C28_ReasoningReadsShiftedComponents ==
    "predict_direction" \in call.ran
    => LET reasoning == call.prediction.reasoning
           clauses == {reasoning[i] : i \in 1..Len(reasoning)}
       IN /\ call.analysis.trend_strength \in 1000..10000
          /\ "Clear bearish momentum identified" \notin clauses
          /\ "Strong bullish trend detected" \in clauses
               <=> call.analysis.trend_strength > 5000
          /\ "High volatility supports strong directional move" \in clauses
               <=> call.analysis.trend = "bullish"
          /\ "Low volatility suggests stable price action" \in clauses
               <=> call.analysis.trend # "bullish"
          /\ Len(reasoning) \in 1..3

\* C28: a bearish market of volatility above 0.7 with trend_strength above
\* 0.5, reasoned as a strong bullish trend under low volatility
C28_Witness ==
    /\ "predict_direction" \in call.ran
    /\ call.analysis.trend = "bearish"
    /\ call.analysis.trend_strength > 5000
    /\ call.analysis.volatility > 7000
    /\ call.prediction.reasoning[1] = "Strong bullish trend detected"
    /\ call.prediction.reasoning[2] = "Low volatility suggests stable price action"
    /\ Len(call.prediction.reasoning) = 3


C30_CachesIndependentPerKey ==
    [][/\ DOMAIN analysis_cache' = DOMAIN last_analysis_time'
       /\ DOMAIN data_cache' = DOMAIN last_update_time'
       /\ DOMAIN analysis_cache \subseteq DOMAIN analysis_cache'
       /\ DOMAIN data_cache \subseteq DOMAIN data_cache'
       /\ \A q \in DOMAIN analysis_cache' :
             \/ /\ HasKey(analysis_cache, q)
                /\ analysis_cache'[q] = analysis_cache[q]
                /\ last_analysis_time'[q] = last_analysis_time[q]
             \/ /\ q = call'.pair
                /\ "sub_analyses" \in call'.ran
                /\ HasKey(analysis_cache, q) => now - last_analysis_time[q] >= 5
                /\ analysis_cache'[q] = call'.analysis
                /\ last_analysis_time'[q] = now
       /\ \A q \in DOMAIN data_cache' :
             \/ /\ HasKey(data_cache, q)
                /\ data_cache'[q] = data_cache[q]
                /\ last_update_time'[q] = last_update_time[q]
             \/ /\ q = call'.pair
                /\ fetch' # "cached"
                /\ data_cache'[q] = call'.snapshot
                /\ last_update_time'[q] = now
       /\ "sub_analyses" \notin call'.ran
          => analysis_cache' = analysis_cache /\ last_analysis_time' = last_analysis_time
       /\ fetch' = "cached"
          => data_cache' = data_cache /\ last_update_time' = last_update_time]_vars

\* C30: a call for one pair fetched its snapshot and computed its analysis
\* while the entries of the other pair, written earlier, stayed as they were
\* in both caches
C30_Witness ==
    /\ call.pair \in Pairs
    /\ fetch \in FetchOutcomes
    /\ "sub_analyses" \in call.ran
    /\ last_analysis_time[call.pair] = now
    /\ last_update_time[call.pair] = now
    /\ analysis_cache[call.pair] = call.analysis
    /\ \E q \in Pairs \ {call.pair} :
          /\ HasKey(analysis_cache, q)
          /\ HasKey(data_cache, q)
          /\ last_analysis_time[q] < now
          /\ last_update_time[q] < now
          /\ analysis_cache[q] # call.analysis

============================================================================
